---- MODULE Spec2Model ----
(***************************************************************************)
(* Model of the grammY menu plugin (src/src/menu.ts): stateless menus      *)
(* whose buttons carry their identity in the callback data, the render     *)
(* that emits those tokens, and the middleware that verifies an incoming   *)
(* click against the menu's current render.                                *)
(*                                                                         *)
(* Strings are sequences of Unicode code points, so that split, join,      *)
(* toString(16), parseInt and the hash work on what the code works on.     *)
(***************************************************************************)
EXTENDS Integers, Sequences, FiniteSets, TLC

VARIABLES
    menus,      \* the registry of the root menu: id -> [options, ops, parent]
    sess,       \* the data the request context exposes to dynamic strings/ranges
    kbd,        \* inline keyboard currently shown under the chat message
    sentMenu,   \* id of the menu that rendered kbd ("" as <<>> when none shown)
    sentSess,   \* context data at the time kbd was rendered
    upd,        \* the update being processed: data, outcome, handlers, calls
    pc,         \* "idle" between updates, "done" when the middleware returned
    dispatched, \* the token of kbd whose handlers were dispatched last
    wire,       \* one button on its way through constructor, render and decoding
    heap,       \* Menu objects and the Map objects their index fields refer to
    inst,       \* one update on its way through the navigation installer
    lay,        \* a layout under construction and its renders
    hsh         \* the numbers fed to tinyHash and the hash so far

vars == <<menus, sess, kbd, sentMenu, sentSess, upd, pc, dispatched, wire, heap, inst,
          lay, hsh>>

(***************************************************************************)
(* Bounds of the model                                                     *)
(***************************************************************************)
\* context data ranges over 0..MaxSess
MaxSess == 2
\* register is called at most MaxRegs times
MaxRegs == 3

(***************************************************************************)
(* Characters and small string helpers                                     *)
(***************************************************************************)
\* "/" the delimiter of the token format
Slash == 47
\* U+FFFD, what TextDecoder emits for a malformed byte sequence
Replacement == 65533

Includes(str, c) == \E i \in 1..Len(str) : str[i] = c

RECURSIVE split(_, _)
\* String.prototype.split(sep) for a one-character separator
split(str, sep) ==
    IF ~Includes(str, sep) THEN <<str>>
    ELSE LET i == CHOOSE k \in 1..Len(str) :
                     str[k] = sep /\ \A j \in 1..(k-1) : str[j] # sep
         IN <<SubSeq(str, 1, i-1)>> \o split(SubSeq(str, i+1, Len(str)), sep)

RECURSIVE joinNoSep(_, _)
\* a variant of join that leaves the separator out
joinNoSep(parts, sep) ==
    IF parts = <<>> THEN <<>> ELSE parts[1] \o joinNoSep(Tail(parts), sep)

RECURSIVE join(_, _)
\* Array.prototype.join(sep)
join(parts, sep) ==
    IF parts = <<>> THEN <<>>
    ELSE IF Len(parts) = 1 THEN parts[1]
    ELSE parts[1] \o <<sep>> \o join(Tail(parts), sep)

\* element i (1-based) of a destructured array; a missing element is undefined,
\* which every use in the middleware treats like the empty string (falsy)
Nth(parts, i) == IF i <= Len(parts) THEN parts[i] ELSE <<>>

\* the rest elements of a destructuring after the first n
Rest(parts, n) == IF Len(parts) > n THEN SubSeq(parts, n+1, Len(parts)) ELSE <<>>

(***************************************************************************)
(* Number.prototype.toString(16) and parseInt(str, 16)                     *)
(***************************************************************************)
HexDigit(d) == IF d < 10 THEN 48 + d ELSE 87 + d

RECURSIVE toString16(_)
toString16(n) ==
    IF n < 16 THEN <<HexDigit(n)>>
    ELSE toString16(n \div 16) \o <<HexDigit(n % 16)>>

IsHexChar(c) == (c >= 48 /\ c <= 57) \/ (c >= 97 /\ c <= 102) \/ (c >= 65 /\ c <= 70)

HexVal(c) ==
    IF c >= 48 /\ c <= 57 THEN c - 48
    ELSE IF c >= 97 /\ c <= 102 THEN c - 87
    ELSE c - 55

IsWhite(c) == c \in {9, 10, 11, 12, 13, 32}

RECURSIVE TrimLeft(_)
TrimLeft(str) ==
    IF str # <<>> /\ IsWhite(Head(str)) THEN TrimLeft(Tail(str)) ELSE str

RECURSIVE HexPrefixValue(_, _)
\* value of the longest prefix of hex digits of str, continuing from acc
HexPrefixValue(str, acc) ==
    IF str = <<>> \/ ~IsHexChar(Head(str)) THEN acc
    ELSE HexPrefixValue(Tail(str), 16 * acc + HexVal(Head(str)))

\* parseInt(str, 16): [nan |-> TRUE] when no digit can be read
parseInt16(str) ==
    LET s0   == TrimLeft(str)
        neg  == s0 # <<>> /\ Head(s0) = 45
        s1   == IF s0 # <<>> /\ Head(s0) \in {43, 45} THEN Tail(s0) ELSE s0
        s2   == IF Len(s1) >= 2 /\ s1[1] = 48 /\ s1[2] \in {120, 88}
                THEN SubSeq(s1, 3, Len(s1)) ELSE s1
    IN IF s2 = <<>> \/ ~IsHexChar(Head(s2))
       THEN [nan |-> TRUE, val |-> 0]
       ELSE [nan |-> FALSE,
             val |-> (IF neg THEN -1 ELSE 1) * HexPrefixValue(s2, 0)]

(***************************************************************************)
(* tinyHash: 32-bit arithmetic on 16-bit halves                            *)
(***************************************************************************)
\* low 16 bits are kept apart from the high ones so that no intermediate
\* value leaves the range of the model checker's integers
Half == 2 ^ 16

\* a 32-bit pattern as <<hi, lo>>
Word(hi, lo) == <<hi % Half, lo % Half>>

\* w << k as the signed 32-bit value JavaScript computes, as <<hi, lo>> with
\* hi in -32768..32767
ShlInt32(w, k) ==
    LET p  == 2 ^ k
        lo == w[2] * p
        hi == (w[1] * p + lo \div Half) % Half
    IN <<IF hi >= 32768 THEN hi - Half ELSE hi, lo % Half>>

\* (a + b + c + n) >>> 0 for the three <<hi, lo>> values and the number n
AddUint32(a, b, c, n) ==
    LET lo == a[2] + b[2] + c[2] + (n % Half)
        hi == a[1] + b[1] + c[1] + (n \div Half) + (lo \div Half)
    IN Word(hi, lo)

RECURSIVE HashLoop(_, _)
\* for (const n of nums) hash = ((hash << 5) + (hash << 2) + hash + n) >>> 0
HashLoop(hash, nums) ==
    IF nums = <<>> THEN hash
    ELSE HashLoop(AddUint32(ShlInt32(hash, 5), ShlInt32(hash, 2), hash, Head(nums)),
                  Tail(nums))

\* [hash >>> 24, (hash >> 16) & b, (hash >> 8) & b, hash & b]
HashBytes(hash) ==
    <<hash[1] \div 256, hash[1] % 256, hash[2] \div 256, hash[2] % 256>>

RECURSIVE Utf8Step(_, _, _, _, _, _, _)
\* the UTF-8 decoder of TextDecoder (non-fatal): a malformed sequence yields
\* U+FFFD and the offending byte is read again
Utf8Step(bytes, i, needed, seen, cp, lower, upper) ==
    IF i > Len(bytes)
    THEN IF needed # 0 THEN <<Replacement>> ELSE <<>>
    ELSE LET b == bytes[i] IN
      IF needed = 0 THEN
        IF b <= 127 THEN <<b>> \o Utf8Step(bytes, i+1, 0, 0, 0, 128, 191)
        ELSE IF b >= 194 /\ b <= 223
             THEN Utf8Step(bytes, i+1, 1, 0, b % 32, 128, 191)
        ELSE IF b >= 224 /\ b <= 239
             THEN Utf8Step(bytes, i+1, 2, 0, b % 16,
                           IF b = 224 THEN 160 ELSE 128,
                           IF b = 237 THEN 159 ELSE 191)
        ELSE IF b >= 240 /\ b <= 244
             THEN Utf8Step(bytes, i+1, 3, 0, b % 8,
                           IF b = 240 THEN 144 ELSE 128,
                           IF b = 244 THEN 143 ELSE 191)
        ELSE <<Replacement>> \o Utf8Step(bytes, i+1, 0, 0, 0, 128, 191)
      ELSE IF b < lower \/ b > upper
           THEN <<Replacement>> \o Utf8Step(bytes, i, 0, 0, 0, 128, 191)
      ELSE LET cp2 == cp * 64 + (b % 64) IN
           IF seen + 1 = needed
           THEN <<cp2>> \o Utf8Step(bytes, i+1, 0, 0, 0, 128, 191)
           ELSE Utf8Step(bytes, i+1, needed, seen + 1, cp2, 128, 191)

\* dec.decode(bytes): a leading byte order mark is dropped
decode(bytes) ==
    IF Len(bytes) >= 3 /\ SubSeq(bytes, 1, 3) = <<239, 187, 191>>
    THEN Utf8Step(SubSeq(bytes, 4, Len(bytes)), 1, 0, 0, 0, 128, 191)
    ELSE Utf8Step(bytes, 1, 0, 0, 0, 128, 191)

\* Array.from(str).map(c => c.codePointAt(0)): strings already are code points
toNums(str) == str

tinyHash(nums) == decode(HashBytes(HashLoop(Word(0, 17), nums)))

(***************************************************************************)
(* Potentially dynamic strings, buttons and ranges                         *)
(***************************************************************************)
\* MaybeDynamicString | undefined.  A function of the context is given by the
\* strings it returns for the context data 0, 1, ... (taken cyclically)
Undefined == [kind |-> "undef", vals |-> <<>>]
Static(str) == [kind |-> "static", vals |-> <<str>>]
Dynamic(strs) == [kind |-> "fn", vals |-> strs]

uniform(ctx, value, fallback) ==
    IF value.kind = "undef" THEN fallback
    ELSE IF value.kind = "fn" THEN value.vals[(ctx % Len(value.vals)) + 1]
    ELSE value.vals[1]

\* MenuRange.text: a button with handlers ("middleware" in btn)
TextButton(text, payload, middleware) ==
    [type |-> "cb", text |-> text, payload |-> payload,
     middleware |-> middleware, url |-> Undefined]

\* MenuRange.url: a button without handlers ("url" in btn)
UrlButton(text, url) ==
    [type |-> "url", text |-> text, payload |-> Undefined,
     middleware |-> <<>>, url |-> url]

\* MenuRange.add: addRange([btns])
RawRange(rows) == [kind |-> "raw", rows |-> rows, ops |-> <<>>, fn |-> <<>>]
\* a MenuRange instance returned by a dynamic range
RangeOf(ops) == [kind |-> "range", rows |-> <<>>, ops |-> ops, fn |-> <<>>]
\* MenuRange.dynamic / a DynamicRange: the range it returns per context data
DynamicRange(results) == [kind |-> "fn", rows |-> <<>>, ops |-> <<>>, fn |-> results]
\* MenuRange.row: addRange([[], []])
RowBreak == RawRange(<< <<>>, <<>> >>)
Add(btns) == RawRange(<<btns>>)

(***************************************************************************)
(* createRenderer                                                          *)
(***************************************************************************)
\* the button transformer of the middleware: (btn) => btn
DryTransformer == [full |-> FALSE, id |-> <<>>]
\* the button transformer of Menu.render for the menu id
RenderTransformer(id) == [full |-> TRUE, id |-> id]

\* the transformer passed to createRenderer, applied to one button at row i
\* and column j (0-based); err is set when it throws
buttonTransformer(tr, ctx, btn, i, j) ==
    IF ~tr.full THEN [err |-> FALSE, btn |-> btn]
    ELSE LET text == uniform(ctx, btn.text, <<>>) IN
      IF btn.type = "url"
      THEN [err |-> FALSE,
            btn |-> [type |-> "url", text |-> text, callback_data |-> <<>>,
                     url |-> uniform(ctx, btn.url, <<>>)]]
      ELSE IF btn.type = "cb"
      THEN LET row == toString16(i)
               col == toString16(j)
               payload == uniform(ctx, btn.payload, <<>>)
           IN IF Includes(payload, Slash)
              THEN [err |-> TRUE, btn |-> btn]
              ELSE [err |-> FALSE,
                    btn |-> [type |-> "cb", text |-> text,
                             callback_data |->
                                 tr.id \o <<Slash>> \o row \o <<Slash>> \o col
                                 \o <<Slash>> \o payload \o <<Slash>>,
                             url |-> <<>>]]
      ELSE [err |-> FALSE,
            btn |-> [type |-> btn.type, text |-> text, callback_data |-> <<>>,
                     url |-> <<>>]]

RECURSIVE PushButtonsColumnAhead(_, _, _, _)
\* a variant of PushButtons that reads the column after the button is pushed
PushButtonsColumnAhead(acc, row, ctx, tr) ==
    IF acc.err \/ row = <<>> THEN acc
    ELSE LET k == acc.k
             i == Len(k) - 1
             j == Len(k[i + 1]) + 1
             t == buttonTransformer(tr, ctx, Head(row), i, j)
         IN IF t.err THEN [err |-> TRUE, k |-> k]
            ELSE PushButtonsColumnAhead(
                    [err |-> FALSE,
                     k |-> [k EXCEPT ![i + 1] = Append(k[i + 1], t.btn)]],
                    Tail(row), ctx, tr)

RECURSIVE PushButtons(_, _, _, _)
\* for (const button of row) { j = k[i].length; k[i].push(transform(button, i, j)) }
PushButtons(acc, row, ctx, tr) ==
    IF acc.err \/ row = <<>> THEN acc
    ELSE LET k == acc.k
             i == Len(k) - 1
             j == Len(k[i + 1])
             t == buttonTransformer(tr, ctx, Head(row), i, j)
         IN IF t.err THEN [err |-> TRUE, k |-> k]
            ELSE PushButtons(
                    [err |-> FALSE,
                     k |-> [k EXCEPT ![i + 1] = Append(k[i + 1], t.btn)]],
                    Tail(row), ctx, tr)

RECURSIVE ReplayRowsAlwaysOpens(_, _, _, _, _)
\* a variant of ReplayRows that opens a new row for the first row as well
ReplayRowsAlwaysOpens(acc, rows, first, ctx, tr) ==
    IF acc.err \/ rows = <<>> THEN acc
    ELSE ReplayRowsAlwaysOpens(
            PushButtons([err |-> FALSE, k |-> Append(acc.k, <<>>)], Head(rows), ctx, tr),
            Tail(rows), FALSE, ctx, tr)

RECURSIVE ReplayRows(_, _, _, _, _)
\* for (const row of btns) { if (!first) k.push([]); ...; first = false }
ReplayRows(acc, rows, first, ctx, tr) ==
    IF acc.err \/ rows = <<>> THEN acc
    ELSE LET opened == IF first THEN acc
                       ELSE [err |-> FALSE, k |-> Append(acc.k, <<>>)]
         IN ReplayRows(PushButtons(opened, Head(rows), ctx, tr),
                       Tail(rows), FALSE, ctx, tr)

RECURSIVE layout(_, _, _, _)
RECURSIVE Reduce(_, _, _, _)
\* a variant of layout that lays a returned MenuRange out on a keyboard of
\* its own and adds the rows of that keyboard below the rows built so far
layoutOwnGrid(keyboard, range, ctx, tr) ==
    IF keyboard.err THEN keyboard
    ELSE LET btns == IF range.kind = "fn"
                     THEN range.fn[(ctx % Len(range.fn)) + 1]
                     ELSE range
             own == Reduce(btns.ops, [err |-> FALSE, k |-> << <<>> >>], ctx, tr)
         IN IF btns.kind = "range"
            THEN [err |-> own.err, k |-> keyboard.k \o own.k]
            ELSE ReplayRows(keyboard, btns.rows, TRUE, ctx, tr)

\* the reducer of createRenderer: lays one range out on the keyboard built so far
layout(keyboard, range, ctx, tr) ==
    IF keyboard.err THEN keyboard
    ELSE LET btns == IF range.kind = "fn"
                     THEN range.fn[(ctx % Len(range.fn)) + 1]
                     ELSE range
         IN IF btns.kind = "range"
            THEN Reduce(btns.ops, keyboard, ctx, tr)
            ELSE ReplayRows(keyboard, btns.rows, TRUE, ctx, tr)

\* ops.reduce(layout, keyboard)
Reduce(ops, keyboard, ctx, tr) ==
    IF ops = <<>> THEN keyboard
    ELSE Reduce(Tail(ops), layout(keyboard, Head(ops), ctx, tr), ctx, tr)

\* a variant of createRenderer whose rendering function, for the transformer
\* of the middleware, starts from the keyboard the render before it left behind
createRendererShared(ctx, tr, ops) ==
    Reduce(ops,
           [err |-> FALSE,
            k |-> IF tr.full \/ lay.shots = <<>> THEN << <<>> >>
                  ELSE lay.shots[Len(lay.shots)].dry],
           ctx, tr)

\* the rendering function createRenderer returns: starts from [[]]
createRenderer(ctx, tr, ops) ==
    Reduce(ops, [err |-> FALSE, k |-> << <<>> >>], ctx, tr)

(***************************************************************************)
(* Menu: constructor, render, prepare                                      *)
(***************************************************************************)
\* MenuOptions as passed by the caller; "undef" marks an option left out
RawOptions(autoAnswer, onMenuOutdated, fingerprint) ==
    [autoAnswer |-> autoAnswer, onMenuOutdated |-> onMenuOutdated,
     fingerprint |-> fingerprint]

OutdatedUnset == [kind |-> "undef", text |-> "", mw |-> ""]
OutdatedTrue == [kind |-> "true", text |-> "", mw |-> ""]
OutdatedFalse == [kind |-> "false", text |-> "", mw |-> ""]
OutdatedString(text) == [kind |-> "string", text |-> text, mw |-> ""]
OutdatedMiddleware(mw) == [kind |-> "mw", text |-> "", mw |-> mw]

\* a variant of MenuCtor that accepts every identifier
MenuCtorAnyId(id, options) ==
    LET outdated == options.onMenuOutdated
        stored ==
            [autoAnswer |-> options.autoAnswer # "false",
             onMenuOutdated |->
                 IF outdated.kind \in {"undef", "true"}
                 THEN OutdatedString("Menu was outdated, try again!")
                 ELSE outdated,
             fingerprint |-> IF options.fingerprint.kind = "undef"
                             THEN Dynamic(<< <<>> >>)
                             ELSE options.fingerprint]
    IN [err |-> outdated.kind = "false" /\ options.fingerprint.kind # "undef",
        menu |-> [id |-> id, parentSet |-> FALSE, parent |-> <<>>,
                  options |-> stored, ops |-> <<>>]]

\* new Menu(id, options): err when the constructor throws
MenuCtor(id, options) ==
    LET outdated == options.onMenuOutdated
        stored ==
            [autoAnswer |-> options.autoAnswer # "false",
             onMenuOutdated |->
                 IF outdated.kind \in {"undef", "true"}
                 THEN OutdatedString("Menu was outdated, try again!")
                 ELSE outdated,
             fingerprint |-> IF options.fingerprint.kind = "undef"
                             THEN Dynamic(<< <<>> >>)
                             ELSE options.fingerprint]
    IN [err |-> Includes(id, Slash)
                \/ (outdated.kind = "false" /\ options.fingerprint.kind # "undef"),
        menu |-> [id |-> id, parentSet |-> FALSE, parent |-> <<>>,
                  options |-> stored, ops |-> <<>>]]

\* the shape of a rendered keyboard: [rendered.length, ...rows' lengths]
Lengths(rendered) ==
    <<Len(rendered)>> \o [i \in 1..Len(rendered) |-> Len(rendered[i])]

\* the type character and hash that render appends to a callback button's data
FingerprintTag(fingerprint, lengths, text) ==
    IF fingerprint # <<>>
    THEN <<102>> \o tinyHash(toNums(fingerprint))
    ELSE <<104>> \o tinyHash(lengths \o toNums(text))

\* Menu.render(ctx): err when a payload contains "/"
render(menu, ctx) ==
    LET r == createRenderer(ctx, RenderTransformer(menu.id), menu.ops) IN
    IF r.err THEN [err |-> TRUE, k |-> <<>>]
    ELSE LET rendered == r.k
             lengths == Lengths(rendered)
             fingerprint == uniform(ctx, menu.options.fingerprint, <<>>)
         IN [err |-> FALSE,
             k |-> [i \in 1..Len(rendered) |->
                     [j \in 1..Len(rendered[i]) |->
                       LET btn == rendered[i][j] IN
                       IF btn.type = "cb"
                       THEN [btn EXCEPT !.callback_data =
                               @ \o FingerprintTag(fingerprint, lengths, btn.text)]
                       ELSE btn]]]

\* an outgoing API call as the transport receives it
Call(method, text, hasMarkup, keyboard) ==
    [method |-> method, text |-> text, hasMarkup |-> hasMarkup,
     inline_keyboard |-> keyboard]

\* a variant of prepare that renders the menu the middleware was installed on
prepareThis(index, id, ctx) ==
    LET rendered == render(index[<<114, 111, 111, 116>>], ctx)
    IN [err |-> rendered.err, replaced |-> TRUE, k |-> rendered.k]

\* this.prepare(payload, ctx) for a payload whose reply_markup is the menu
\* named id: the menu is replaced by its render when the index knows it
prepare(index, id, ctx) ==
    IF id \in DOMAIN index
    THEN LET rendered == render(index[id], ctx)
         IN [err |-> rendered.err, replaced |-> TRUE, k |-> rendered.k]
    ELSE [err |-> FALSE, replaced |-> FALSE, k |-> <<>>]

(***************************************************************************)
(* Menu.middleware: the handler of callback_query:data                     *)
(***************************************************************************)
\* what processing one update came to.  outcome: "ignored" (the factory
\* returned [], the update goes downstream), "outdated", "valid", or "error"
\* (the factory threw); chain: the middleware dispatched, in order; calls:
\* the API calls the menu itself issued; error: the message thrown, if any
Result(outcome, error, menu, chain, calls, match) ==
    [outcome |-> outcome, error |-> error, menu |-> menu, chain |-> chain,
     calls |-> calls, match |-> match]

\* a variant of Ignored that acknowledges the click before passing it on
IgnoredAnswers ==
    Result("ignored", "", <<>>, <<>>,
           <<[method |-> "answerCallbackQuery", text |-> "", hasMarkup |-> FALSE,
              inline_keyboard |-> <<>>]>>, <<>>)

\* return []
Ignored == Result("ignored", "", <<>>, <<>>, <<>>, <<>>)

\* throw new Error(msg) / a TypeError raised by the runtime
Throws(msg, menu, match) == Result("error", msg, menu, <<>>, <<>>, match)

\* a variant of menuIsOutdated that still runs the handlers of the menu's
\* first button after the outdated policy
menuIsOutdatedRunsHandlers(index, menu, ctx, match) ==
    LET range == createRenderer(ctx, DryTransformer, menu.ops).k
        first == IF range[1] # <<>> THEN range[1][1].middleware ELSE <<"h1">>
    IN Result("outdated", "", menu.id, <<"navInstaller", "outdated">> \o first,
              <<>>, match)

\* menuIsOutdated() and the run of what it returns
menuIsOutdated(index, menu, ctx, match) ==
    LET outdated == menu.options.onMenuOutdated IN
    IF outdated.kind = "false" THEN Throws("cannot happen", menu.id, match)
    ELSE IF outdated.kind # "string"
    THEN Result("outdated", "", menu.id, <<"navInstaller", outdated.mw>>, <<>>, match)
    ELSE LET answer == Call("answerCallbackQuery", outdated.text, FALSE, <<>>)
             \* editMessageReplyMarkup({ reply_markup: menu }) passes the
             \* transformer installed by the root menu, which renders the menu
             p == prepare(index, menu.id, ctx)
         IN IF p.err
            THEN Result("outdated", "Could not render menu", menu.id, <<>>,
                        <<answer>>, match)
            ELSE Result("outdated", "", menu.id, <<>>,
                        <<answer, Call("editMessageReplyMarkup", "", TRUE, p.k)>>,
                        match)

\* row >= n as JavaScript compares: false when row is NaN
GreaterEq(num, n) == ~num.nan /\ num.val >= n
\* range[row] is undefined
NoRow(range, row) == row.nan \/ row.val >= Len(range)
\* range[row][col] is undefined, for a row that exists
NoButton(range, row, col) == col.nan \/ col.val >= Len(range[row.val + 1])

\* a variant of RunHandler that runs the handlers of the button before
\* the clicked one in its row
RunHandlerOffByOne(menu, range, row, col, match) ==
    LET c == IF col.val > 0 THEN col.val ELSE Len(range[row.val + 1])
        btn == range[row.val + 1][c]
    IN Result("valid", "", menu.id, <<"navInstaller">> \o btn.middleware,
              IF menu.options.autoAnswer
              THEN <<Call("answerCallbackQuery", "", FALSE, <<>>)>> ELSE <<>>,
              match)

\* "Run handler": [navInstaller, ...handler], preceded by the forked
\* answerCallbackQuery() when autoAnswer is set
RunHandler(menu, range, row, col, match) ==
    LET btn == range[row.val + 1][col.val + 1]
    IN Result("valid", "", menu.id, <<"navInstaller">> \o btn.middleware,
              IF menu.options.autoAnswer
              THEN <<Call("answerCallbackQuery", "", FALSE, <<>>)>> ELSE <<>>,
              match)

\* a variant of HasMiddleware that takes every button for a callback button
HasMiddlewareAlways(btn) == TRUE

\* "middleware" in btn
HasMiddleware(btn) == btn.type = "cb"

\* a variant of ExpectedHash that hashes the shape without the label
ExpectedHashNoLabel(range, label) == tinyHash(Lengths(range))

\* tinyHash([rowCount, ...rowLengths, ...toNums(label)])
ExpectedHash(range, label) == tinyHash(Lengths(range) \o toNums(label))

\* the checks made on the dry render, from "Check dimension" on
CheckRender(index, menu, ctx, row, col, hash, useFp, match) ==
    LET outdated == menu.options.onMenuOutdated
        range == createRenderer(ctx, DryTransformer, menu.ops).k
        check == ~useFp /\ outdated.kind # "false"
    IN IF check /\ GreaterEq(row, Len(range))
       THEN menuIsOutdated(index, menu, ctx, match)
       ELSE IF check /\ NoRow(range, row)
       THEN Throws("TypeError", menu.id, match)
       ELSE IF check /\ GreaterEq(col, Len(range[row.val + 1]))
       THEN menuIsOutdated(index, menu, ctx, match)
       ELSE IF NoRow(range, row) \/ NoButton(range, row, col)
       THEN Throws("TypeError", menu.id, match)
       ELSE LET btn == range[row.val + 1][col.val + 1] IN
         IF ~HasMiddleware(btn)
         THEN IF check THEN menuIsOutdated(index, menu, ctx, match)
              ELSE Throws("Cannot invoke handlers because menu is outdated!",
                          menu.id, match)
         ELSE IF check /\ hash # ExpectedHash(range, uniform(ctx, btn.text, <<>>))
         THEN menuIsOutdated(index, menu, ctx, match)
         ELSE RunHandler(menu, range, row, col, match)

\* a variant of CheckFingerprint that trusts a custom fingerprint's hash
CheckFingerprintNoHash(index, menu, ctx, type, hash, row, col, match) ==
    LET fingerprint == uniform(ctx, menu.options.fingerprint, <<>>)
        useFp == fingerprint # <<>>
    IN IF useFp # (type = <<102>>) THEN menuIsOutdated(index, menu, ctx, match)
       ELSE CheckRender(index, menu, ctx, row, col, hash, useFp, match)

\* a variant of CheckFingerprint that applies the built-in heuristic on top
\* of a custom fingerprint
CheckFingerprintAndShape(index, menu, ctx, type, hash, row, col, match) ==
    LET fingerprint == uniform(ctx, menu.options.fingerprint, <<>>)
        useFp == fingerprint # <<>>
    IN IF useFp # (type = <<102>>) THEN menuIsOutdated(index, menu, ctx, match)
       ELSE IF useFp /\ tinyHash(toNums(fingerprint)) # hash
       THEN menuIsOutdated(index, menu, ctx, match)
       ELSE CheckRender(index, menu, ctx, row, col, hash, FALSE, match)

\* "Check fingerprint if used"
CheckFingerprint(index, menu, ctx, type, hash, row, col, match) ==
    LET fingerprint == uniform(ctx, menu.options.fingerprint, <<>>)
        useFp == fingerprint # <<>>
    IN IF useFp # (type = <<102>>) THEN menuIsOutdated(index, menu, ctx, match)
       ELSE IF useFp /\ tinyHash(toNums(fingerprint)) # hash
       THEN menuIsOutdated(index, menu, ctx, match)
       ELSE CheckRender(index, menu, ctx, row, col, hash, useFp, match)

\* the lazy middleware factory of the menu the middleware was installed on
\* (index is its this.index) and the run of the middleware it returns
middleware(index, root, data, ctx) ==
    LET parts == split(data, Slash)
        id == parts[1]
        rowStr == Nth(parts, 2)
        colStr == Nth(parts, 3)
        payload == Nth(parts, 4)
        tag == join(Rest(parts, 4), Slash)
        \* const [type, ...h] = tag; hash = h.join("")
        type == IF tag = <<>> THEN <<>> ELSE <<tag[1]>>
        hash == IF tag = <<>> THEN <<>> ELSE Tail(tag)
    IN IF rowStr = <<>> \/ colStr = <<>> THEN Ignored
       ELSE IF type # <<104>> /\ type # <<102>> THEN Ignored
       ELSE IF id \notin DOMAIN index THEN Ignored
       ELSE LET menu == index[id]
                row == parseInt16(rowStr)
                col == parseInt16(colStr)
            IN IF (~row.nan /\ row.val < 0) \/ (~col.nan /\ col.val < 0)
               THEN Throws("Invalid button position", menu.id, <<>>)
               ELSE CheckFingerprint(index, menu, ctx, type, hash, row, col, payload)

(***************************************************************************)
(* The menu tree under verification                                        *)
(***************************************************************************)
\* identifiers: "root", "sub", and "nope", which no menu has
RootId == <<114, 111, 111, 116>>
SubId == <<115, 117, 98>>
UnknownId == <<110, 111, 112, 101>>

\* labels "A", "B", "C", "Aa", "B<", "m7", "b", "=", "Z"; "Aa" and "B<" hash
\* alike, and so do the grids [["b"]] and [["=", "Z"]] for their first button;
\* the hash of a lone button "m7" ends in "/"
LabelA == <<65>>
LabelB == <<66>>
LabelC == <<67>>
LabelAa == <<65, 97>>
LabelBlt == <<66, 60>>
LabelM7 == <<109, 55>>
LabelLowB == <<98>>
LabelEq == <<61>>
LabelZ == <<90>>
\* payloads "x", "y" and "a/b"
PayloadX == <<120>>
PayloadY == <<121>>
PayloadSlash == <<97, 47, 98>>
\* fingerprints "v1" and "v8"; the hash of "v8" ends in "/"
FpV1 == <<118, 49>>
FpV8 == <<118, 56>>

\* new Menu("root").text("A", h1).row().text("B", h2)
LayoutRows ==
    << Add(<<TextButton(Static(LabelA), Undefined, <<"h1">>)>>),
       RowBreak,
       Add(<<TextButton(Static(LabelB), Undefined, <<"h2">>)>>) >>

\* .text("A", h1).dynamic(...): a second button B that is there for context
\* data 0, gone for 1, and a URL button for 2
LayoutShrink ==
    << Add(<<TextButton(Static(LabelA), Undefined, <<"h1">>)>>),
       DynamicRange(<<
           RangeOf(<<Add(<<TextButton(Static(LabelB), Undefined, <<"h2", "h3">>)>>)>>),
           RangeOf(<<>>),
           RangeOf(<<Add(<<UrlButton(Static(LabelB), Static(LabelC))>>)>>) >>) >>

\* .text(ctx => label, h1): one button whose label follows the context
LayoutLabel ==
    << Add(<<TextButton(Dynamic(<<LabelAa, LabelBlt, LabelM7>>), Undefined, <<"h1">>)>>) >>

\* .text({ text: "A", payload: ctx => payload }, h1)
LayoutPayload ==
    << Add(<<TextButton(Static(LabelA),
                        Dynamic(<<PayloadX, PayloadY, PayloadSlash>>), <<"h1">>)>>) >>

\* a fully dynamic menu: the range the builder returns renders to [["b"]],
\* then [["=", "Z"]], then [[], ["b"]]
LayoutShape ==
    << DynamicRange(<<
           RangeOf(<<Add(<<TextButton(Static(LabelLowB), Static(PayloadX), <<"h1">>)>>)>>),
           RangeOf(<<Add(<<TextButton(Static(LabelEq), Static(PayloadX), <<"h1">>),
                           TextButton(Static(LabelZ), Undefined, <<"h2">>)>>)>>),
           RangeOf(<<RowBreak,
                     Add(<<TextButton(Static(LabelLowB), Static(PayloadX), <<"h2">>)>>)>>)
       >>) >>

Layouts == {LayoutRows, LayoutShrink, LayoutLabel, LayoutPayload, LayoutShape}

AutoAnswerOptions == {"undef", "true", "false"}
OutdatedOptions ==
    {OutdatedUnset, OutdatedTrue, OutdatedFalse, OutdatedString("Stale!"),
     OutdatedMiddleware("onOutdated")}
FingerprintOptions ==
    {Undefined, Dynamic(<<FpV1>>), Dynamic(<<FpV1, FpV8, <<>> >>)}

\* every option object a caller may pass
AllOptions ==
    {RawOptions(a, o, f) : a \in AutoAnswerOptions, o \in OutdatedOptions,
                           f \in FingerprintOptions}

\* the menus new Menu(id, options) followed by the builder calls can yield
Built(id, options, ops) == [MenuCtor(id, options).menu EXCEPT !.ops = ops]

\* root.register(sub): both menus are in the shared index, sub's parent is root
Register(root, sub) ==
    (root.id :> root) @@ (sub.id :> [sub EXCEPT !.parentSet = TRUE, !.parent = root.id])

\* the root menu of the tree: the quickstart menu with default options, or a
\* menu with a custom fingerprint
RootMenus ==
    {Built(RootId, RawOptions("undef", OutdatedUnset, Undefined), LayoutRows),
     Built(RootId, RawOptions("undef", OutdatedString("Stale!"), Dynamic(<<FpV8>>)),
           LayoutLabel)}

SubMenus ==
    {Built(SubId, o, l) : o \in {x \in AllOptions : ~MenuCtor(SubId, x).err},
                          l \in Layouts}

(***************************************************************************)
(* State machine                                                           *)
(***************************************************************************)
\* no button is followed through the token format
NoWire == [stage |-> "none"]

\* no Menu object is followed through register
NoHeap == [last |-> [op |-> "none"]]
NoInst == [stage |-> "none"]
NoLay == [stage |-> "none"]
NoHsh == [stage |-> "none"]

NoUpdate ==
    [src |-> "none", data |-> <<>>, r |-> 0, c |-> 0, shownMenu |-> <<>>,
     shownSess |-> 0, again |-> FALSE, res |-> Ignored]

Init ==
    /\ \E root \in RootMenus, sub \in SubMenus : menus = Register(root, sub)
    /\ sess \in 0..MaxSess
    /\ kbd = <<>>
    /\ sentMenu = <<>>
    /\ sentSess = 0
    /\ upd = NoUpdate
    /\ pc = "idle"
    /\ dispatched = <<>>
    /\ wire = NoWire
    /\ heap = NoHeap
    /\ inst = NoInst
    /\ lay = NoLay
    /\ hsh = NoHsh

\* the context data changes between two updates (a handler or anything else
\* wrote the session)
ChangeSession ==
    /\ pc = "idle"
    /\ \E s \in 0..MaxSess : s # sess /\ sess' = s
    /\ UNCHANGED <<menus, kbd, sentMenu, sentSess, upd, pc, dispatched, wire, heap, inst, lay, hsh>>

\* ctx.reply(text, { reply_markup: menu }): the transformer installed by the
\* root menu's middleware renders the menu into the outgoing payload
Send ==
    /\ pc = "idle"
    /\ \E id \in DOMAIN menus :
          LET p == prepare(menus, id, sess) IN
          /\ ~p.err
          /\ kbd' = p.k
          /\ sentMenu' = id
          /\ sentSess' = sess
    /\ dispatched' = <<>>
    /\ UNCHANGED <<menus, sess, upd, pc, wire, heap, inst, lay, hsh>>

\* the callback buttons of the keyboard shown, as <<row, col>> (0-based)
Pressable ==
    {rc \in (0..(Len(kbd) - 1)) \X (0..2) :
        /\ rc[2] < Len(kbd[rc[1] + 1])
        /\ kbd[rc[1] + 1][rc[2] + 1].type = "cb"}

\* the keyboard under the message after the update's calls were made
HasEdit(res) == \E i \in 1..Len(res.calls) : res.calls[i].hasMarkup

Edited(res, old) ==
    IF HasEdit(res)
    THEN (CHOOSE c \in {res.calls[i] : i \in 1..Len(res.calls)} : c.hasMarkup).inline_keyboard
    ELSE old

\* a variant of Process in which a token is consumed by its first dispatch:
\* the data that was dispatched last is outdated when it comes again
ProcessOnce(src, data, r, c) ==
    /\ upd' = [src |-> src, data |-> data, r |-> r, c |-> c,
               shownMenu |-> sentMenu, shownSess |-> sentSess,
               again |-> data = dispatched,
               res |-> IF data = dispatched
                       THEN Result("outdated", "", <<>>, <<>>, <<>>, <<>>)
                       ELSE middleware(menus, RootId, data, sess)]
    /\ kbd' = Edited(upd'.res, kbd)
    /\ sentMenu' = IF HasEdit(upd'.res) THEN upd'.res.menu ELSE sentMenu
    /\ sentSess' = IF HasEdit(upd'.res) THEN sess ELSE sentSess
    /\ dispatched' = IF HasEdit(upd'.res) THEN <<>>
                     ELSE IF upd'.res.outcome = "valid" /\ src = "pressed" THEN data
                     ELSE dispatched
    /\ pc' = "done"
    /\ UNCHANGED <<menus, sess, wire, heap, inst, lay, hsh>>

\* a variant of Process in which a navigation makes the menu that was shown
\* the parent of the menu navigated to
ProcessAdopts(src, data, r, c) ==
    /\ upd' = [src |-> src, data |-> data, r |-> r, c |-> c,
               shownMenu |-> sentMenu, shownSess |-> sentSess,
               again |-> data = dispatched,
               res |-> middleware(menus, RootId, data, sess)]
    /\ kbd' = Edited(upd'.res, kbd)
    /\ sentMenu' = IF HasEdit(upd'.res) THEN upd'.res.menu ELSE sentMenu
    /\ sentSess' = IF HasEdit(upd'.res) THEN sess ELSE sentSess
    /\ dispatched' = IF HasEdit(upd'.res) THEN <<>>
                     ELSE IF upd'.res.outcome = "valid" /\ src = "pressed" THEN data
                     ELSE dispatched
    /\ pc' = "done"
    /\ menus' = IF HasEdit(upd'.res) /\ upd'.res.menu \in DOMAIN menus
                     /\ sentMenu \in DOMAIN menus
                 THEN [menus EXCEPT ![upd'.res.menu].parentSet = TRUE,
                                    ![upd'.res.menu].parent = sentMenu]
                 ELSE menus
    /\ UNCHANGED <<sess, wire, heap, inst, lay, hsh>>

\* one callback_query:data update goes through the middleware; an edit the
\* menu issued on the way replaces the keyboard under the message.  The
\* middleware keeps nothing between two updates: dispatched only records,
\* for the properties, the button of the keyboard shown that ran last.
Process(src, data, r, c) ==
    /\ upd' = [src |-> src, data |-> data, r |-> r, c |-> c,
               shownMenu |-> sentMenu, shownSess |-> sentSess,
               again |-> data = dispatched,
               res |-> middleware(menus, RootId, data, sess)]
    /\ kbd' = Edited(upd'.res, kbd)
    /\ sentMenu' = IF HasEdit(upd'.res) THEN upd'.res.menu ELSE sentMenu
    /\ sentSess' = IF HasEdit(upd'.res) THEN sess ELSE sentSess
    /\ dispatched' = IF HasEdit(upd'.res) THEN <<>>
                     ELSE IF upd'.res.outcome = "valid" /\ src = "pressed" THEN data
                     ELSE dispatched
    /\ pc' = "done"
    /\ UNCHANGED <<menus, sess, wire, heap, inst, lay, hsh>>

\* the user presses a callback button of the keyboard shown
Click ==
    /\ pc = "idle"
    /\ \E rc \in Pressable :
          Process("pressed", kbd[rc[1] + 1][rc[2] + 1].callback_data, rc[1], rc[2])

\* the update is done; the next one can come
Finish ==
    /\ pc = "done"
    /\ pc' = "idle"
    /\ upd' = NoUpdate
    /\ UNCHANGED <<menus, sess, kbd, sentMenu, sentSess, dispatched, wire, heap, inst, lay, hsh>>

\* callback data as a sender builds it from its fields
Assemble(id, row, col, payload, tag) == join(<<id, row, col, payload, tag>>, Slash)

\* row and column fields a forged token may carry: "0", "1", "5", "", "z", "-1"
ForgedCoords == {<<48>>, <<49>>, <<53>>, <<>>, <<122>>, <<45, 49>>}

\* the tokens that differ from the emitted token t in one field
Forgeries(t) ==
    LET parts == split(t, Slash)
        id == parts[1]
        row == parts[2]
        col == parts[3]
        payload == parts[4]
        tag == join(Rest(parts, 4), Slash)
    IN {Assemble(i, row, col, payload, tag) : i \in {RootId, SubId, UnknownId}}
       \cup {Assemble(id, x, col, payload, tag) : x \in ForgedCoords}
       \cup {Assemble(id, row, x, payload, tag) : x \in ForgedCoords}
       \cup {Assemble(id, row, col, x, tag) : x \in {<<>>, PayloadX, PayloadY}}
       \cup {Assemble(id, row, col, payload, <<x>> \o Tail(tag)) : x \in {104, 102, 120}}
       \cup {Assemble(id, row, col, payload, <<tag[1], 48, 48, 48, 48>>),
             Assemble(id, row, col, payload, <<>>),
             join(<<id, row>>, Slash),
             id}

\* callback data that was not emitted by render arrives: a token of the
\* keyboard shown with one field replaced, or data of another sender
Forge ==
    /\ pc = "idle"
    /\ \E rc \in Pressable :
          \E data \in Forgeries(kbd[rc[1] + 1][rc[2] + 1].callback_data) :
              /\ data # kbd[rc[1] + 1][rc[2] + 1].callback_data
              /\ Process("forged", data, rc[1], rc[2])

Next == ChangeSession \/ Send \/ Click \/ Forge \/ Finish

Spec == Init /\ [][Next]_vars

(***************************************************************************)
(* The token format: one callback button of one menu, from the constructor *)
(* through the button transformer of render to the split of the middleware *)
(***************************************************************************)
\* identifiers "root", "a/b" and twenty-one euro signs (63 bytes of UTF-8)
SlashId == <<97, 47, 98>>
LongId == [i \in 1..21 |-> 8364]
WireIds == {RootId, SlashId, LongId}
\* rows and columns: one and two hexadecimal digits, and the largest of three
WireCoords == {0, 9, 10, 15, 16, 255, 256, 4095}
WirePayloads == {<<>>, PayloadX, PayloadSlash}
\* fingerprint values; without one the button is the lone button "m7" of a
\* 1x1 grid
WireFingerprints == {<<>>, FpV1, FpV8}

WireInit ==
    /\ \E id \in WireIds, row \in WireCoords, col \in WireCoords,
          payload \in WirePayloads, fp \in WireFingerprints :
          /\ fp = <<>> => row = 0 /\ col = 0
          /\ wire = [stage |-> "new", id |-> id, row |-> row, col |-> col,
                     payload |-> payload, fp |-> fp, token |-> <<>>,
                     decoded |-> <<>>]
    /\ menus = <<>>
    /\ sess = 0
    /\ kbd = <<>>
    /\ sentMenu = <<>>
    /\ sentSess = 0
    /\ upd = NoUpdate
    /\ pc = "idle"
    /\ dispatched = <<>>
    /\ heap = NoHeap
    /\ inst = NoInst
    /\ lay = NoLay
    /\ hsh = NoHsh

WireOptions ==
    RawOptions("undef", OutdatedUnset,
               IF wire.fp = <<>> THEN Undefined ELSE Static(wire.fp))

\* new Menu(id, options)
WireConstruct ==
    /\ wire.stage = "new"
    /\ wire' = [wire EXCEPT !.stage = IF MenuCtor(wire.id, WireOptions).err
                                      THEN "rejected" ELSE "built"]
    /\ UNCHANGED <<menus, sess, kbd, sentMenu, sentSess, upd, pc, dispatched, heap, inst, lay, hsh>>

\* menu.text({ text: "m7", payload }, h1) was called at the button's position;
\* render transforms the button and appends the fingerprint tag
WireRender ==
    /\ wire.stage = "built"
    /\ LET menu == MenuCtor(wire.id, WireOptions).menu
           btn == TextButton(Static(LabelM7), Static(wire.payload), <<"h1">>)
           t == buttonTransformer(RenderTransformer(menu.id), sess, btn,
                                  wire.row, wire.col)
           fingerprint == uniform(sess, menu.options.fingerprint, <<>>)
       IN wire' = IF t.err THEN [wire EXCEPT !.stage = "failed"]
                  ELSE [wire EXCEPT
                          !.stage = "emitted",
                          !.token = t.btn.callback_data
                                    \o FingerprintTag(fingerprint, <<1, 1>>, t.btn.text)]
    /\ UNCHANGED <<menus, sess, kbd, sentMenu, sentSess, upd, pc, dispatched, heap, inst, lay, hsh>>

\* the middleware takes the callback data apart
WireDecode ==
    /\ wire.stage = "emitted"
    /\ LET parts == split(wire.token, Slash)
           tag == join(Rest(parts, 4), Slash)
       IN wire' = [wire EXCEPT
                     !.stage = "decoded",
                     !.decoded = [id |-> parts[1],
                                  row |-> parseInt16(Nth(parts, 2)),
                                  col |-> parseInt16(Nth(parts, 3)),
                                  payload |-> Nth(parts, 4),
                                  type |-> IF tag = <<>> THEN <<>> ELSE <<tag[1]>>,
                                  hash |-> IF tag = <<>> THEN <<>> ELSE Tail(tag)]]
    /\ UNCHANGED <<menus, sess, kbd, sentMenu, sentSess, upd, pc, dispatched, heap, inst, lay, hsh>>

WireNext == WireConstruct \/ WireRender \/ WireDecode

WireSpec == WireInit /\ [][WireNext]_vars

(***************************************************************************)
(* Menu objects, their index maps and register                             *)
(***************************************************************************)
\* four Menu objects: "root", "sub", "leaf" and a second menu called "sub"
LeafId == <<108, 101, 97, 102>>
ObjId == <<RootId, SubId, LeafId, SubId>>
TreeObjs == DOMAIN ObjId
\* private parent: string | undefined
NoParent == [set |-> FALSE, id |-> <<>>]
ParentIs(id) == [set |-> TRUE, id |-> id]

\* the objects after their constructors ran: every menu has a Map of its own
\* (Map m belongs to object m at first) that holds the menu itself
NewHeap ==
    [index |-> [o \in TreeObjs |-> o],
     maps |-> [m \in TreeObjs |-> [id \in {ObjId[m]} |-> m]],
     parent |-> [o \in TreeObjs |-> NoParent],
     frozen |-> {},
     regs |-> 0,
     last |-> [op |-> "none"]]

TreeInit ==
    /\ heap = NewHeap
    /\ menus = <<>>
    /\ sess = 0
    /\ kbd = <<>>
    /\ sentMenu = <<>>
    /\ sentSess = 0
    /\ upd = NoUpdate
    /\ pc = "idle"
    /\ dispatched = <<>>
    /\ wire = NoWire
    /\ inst = NoInst
    /\ lay = NoLay
    /\ hsh = NoHsh

\* this.index as a function from identifiers to objects
IndexOf(h, o) == h.maps[h.index[o]]

\* menu.index.forEach((m, id) => { this.index.set(id, m); m.index = this.index })
\* for every menu of the registry
MergeIndex(h, this, menu) ==
    LET tm == h.index[this]
        src == IndexOf(h, menu)
        moved == {src[id] : id \in DOMAIN src}
    IN [h EXCEPT
          !.maps[tm] = [id \in DOMAIN h.maps[tm] \cup DOMAIN src |->
                           IF id \in DOMAIN src THEN src[id] ELSE h.maps[tm][id]],
          !.index = [o \in TreeObjs |-> IF o \in moved THEN tm ELSE h.index[o]]]

\* a variant of SetParent that leaves the parent alone once it is set
SetParentOnce(h, menu, parent) ==
    IF h.parent[menu].set THEN h ELSE [h EXCEPT !.parent[menu] = ParentIs(parent)]

\* menu.parent = parent
SetParent(h, menu, parent) == [h EXCEPT !.parent[menu] = ParentIs(parent)]

RECURSIVE RegisterLoopThisOnly(_, _, _, _)
\* a variant of RegisterLoop without menu.freeze()
RegisterLoopThisOnly(h, this, arr, parent) ==
    IF arr = <<>> THEN h
    ELSE RegisterLoopThisOnly(SetParent(MergeIndex(h, this, Head(arr)), Head(arr), parent),
                              this, Tail(arr), parent)

RECURSIVE RegisterLoop(_, _, _, _)
\* for (const menu of arr) { menu.freeze(); ...; menu.parent = parent }
RegisterLoop(h, this, arr, parent) ==
    IF arr = <<>> THEN h
    ELSE LET menu == Head(arr)
             frozen == [h EXCEPT !.frozen = @ \cup {menu}]
         IN RegisterLoop(SetParent(MergeIndex(frozen, this, menu), menu, parent),
                         this, Tail(arr), parent)

\* this.register(arr, parent): err when it throws "already registered"
register(h, this, arr, parent) ==
    IF \E i \in 1..Len(arr) : ObjId[arr[i]] \in DOMAIN IndexOf(h, this)
    THEN [err |-> TRUE, h |-> h]
    ELSE [err |-> FALSE,
          h |-> RegisterLoop([h EXCEPT !.frozen = @ \cup {this}], this, arr, parent)]

\* menu.at(id): err when the identifier is not known to the menu
at(h, o, id) ==
    IF id \in DOMAIN IndexOf(h, o)
    THEN [err |-> FALSE, menu |-> IndexOf(h, o)[id]]
    ELSE [err |-> TRUE, menu |-> 0]

\* ctx.menu.back() in a handler of menu o: the navigation target nav() records
back(h, o) ==
    IF ~h.parent[o].set THEN [error |-> "no known parent", target |-> 0]
    ELSE IF at(h, o, h.parent[o].id).err THEN [error |-> "not known", target |-> 0]
    ELSE [error |-> "", target |-> at(h, o, h.parent[o].id).menu]

\* the arrays register is called with: one menu, or two different menus
TreeArrs ==
    {<<a>> : a \in TreeObjs} \cup
    {ab \in TreeObjs \X TreeObjs : ab[1] # ab[2]}

\* one call of register, with the default parent or an explicit one
TreeRegister ==
    \E this \in TreeObjs, arr \in TreeArrs, explicit \in {<<>>, LeafId} :
        LET parent == IF explicit = <<>> THEN ObjId[this] ELSE explicit IN
        /\ heap.regs < MaxRegs
        /\ heap' = [register(heap, this, arr, parent).h EXCEPT
                      !.regs = @ + 1,
                      !.last = [op |-> "register", this |-> this, arr |-> arr,
                                parent |-> parent,
                                err |-> register(heap, this, arr, parent).err]]
        /\ UNCHANGED <<menus, sess, kbd, sentMenu, sentSess, upd, pc, dispatched, wire, inst, lay, hsh>>

\* a handler of menu o calls ctx.menu.back()
TreeBack ==
    \E o \in TreeObjs :
        /\ heap' = [heap EXCEPT !.last = [op |-> "back", menu |-> o,
                                          res |-> back(heap, o)]]
        /\ UNCHANGED <<menus, sess, kbd, sentMenu, sentSess, upd, pc, dispatched, wire, inst, lay, hsh>>

TreeNext == TreeRegister \/ TreeBack

TreeSpec == TreeInit /\ [][TreeNext]_vars

(***************************************************************************)
(* Vocabulary of the properties                                            *)
(***************************************************************************)
\* the handlers bound to the buttons of the layouts above
ButtonHandlers == {"h1", "h2", "h3"}

\* an update has gone through the middleware
Processed == pc = "done"
\* ... and its data is the token of a button of the keyboard that was shown
Pressed == pc = "done" /\ upd.src = "pressed"

\* no handler of any button was dispatched for the update
NoHandlerRun == \A i \in 1..Len(upd.res.chain) : upd.res.chain[i] \notin ButtonHandlers

\* the fields of the update's data
TokParts == split(upd.data, Slash)
TokId == TokParts[1]
TokRowStr == Nth(TokParts, 2)
TokColStr == Nth(TokParts, 3)
TokPayload == Nth(TokParts, 4)
TokTag == join(Rest(TokParts, 4), Slash)
TokType == IF TokTag = <<>> THEN <<>> ELSE <<TokTag[1]>>
TokHash == IF TokTag = <<>> THEN <<>> ELSE Tail(TokTag)

\* a string of lower-case hexadecimal digits, as toString(16) writes them
IsHexNumber(str) ==
    /\ str # <<>>
    /\ \A i \in 1..Len(str) : (str[i] >= 48 /\ str[i] <= 57) \/ (str[i] >= 97 /\ str[i] <= 102)

\* the data has the five fields of a token, hexadecimal coordinates and a
\* fingerprint tag of type "h" or "f", and names a menu of the registry
WellFormedKnown ==
    /\ Len(TokParts) >= 5
    /\ IsHexNumber(TokRowStr)
    /\ IsHexNumber(TokColStr)
    /\ TokType \in {<<104>>, <<102>>}
    /\ TokId \in DOMAIN menus

TokMenu == menus[TokId]
TokRow == parseInt16(TokRowStr).val
TokCol == parseInt16(TokColStr).val
\* the menu's current render, and the button at the token's position in it
TokRange == createRenderer(sess, DryTransformer, TokMenu.ops).k
TokInGrid == TokRow < Len(TokRange) /\ TokCol < Len(TokRange[TokRow + 1])
TokButton == TokRange[TokRow + 1][TokCol + 1]
\* the token addresses a callback button of the current render
TokOnCallback == TokInGrid /\ TokButton.type = "cb"
\* the menu's custom fingerprint value now ("" when it has none)
TokFp == uniform(sess, TokMenu.options.fingerprint, <<>>)
DetectionEnabled == TokMenu.options.onMenuOutdated.kind # "false"

\* the handler chain of the callback button at the token's position
TokChain == <<"navInstaller">> \o TokButton.middleware

\* for a pressed button: the menu that rendered it, its render when it was
\* sent and its render now
PressedMenu == menus[upd.shownMenu]
SentRange == createRenderer(upd.shownSess, DryTransformer, PressedMenu.ops).k
NowRange == createRenderer(sess, DryTransformer, PressedMenu.ops).k
SentButton == SentRange[upd.r + 1][upd.c + 1]
NowInGrid == upd.r < Len(NowRange) /\ upd.c < Len(NowRange[upd.r + 1])
NowButton == NowRange[upd.r + 1][upd.c + 1]
SentLabel == uniform(upd.shownSess, SentButton.text, <<>>)
NowLabel == uniform(sess, NowButton.text, <<>>)
SentPayload == uniform(upd.shownSess, SentButton.payload, <<>>)
NowPayload == uniform(sess, NowButton.payload, <<>>)
SentFp == uniform(upd.shownSess, PressedMenu.options.fingerprint, <<>>)
NowFp == uniform(sess, PressedMenu.options.fingerprint, <<>>)

\* same grid shape, same label and payload for the pressed button, same
\* custom fingerprint value
RenderUnchanged ==
    /\ Lengths(NowRange) = Lengths(SentRange)
    /\ NowButton.type = "cb"
    /\ NowLabel = SentLabel
    /\ NowPayload = SentPayload
    /\ NowFp = SentFp

(***************************************************************************)
(* C1: a click on a token that render emitted, processed while the menu's  *)
(* render is unchanged (shape, the button's label and payload, custom      *)
(* fingerprint value), is valid and dispatches exactly the handler chain   *)
(* of the button at that position of that menu.                            *)
(***************************************************************************)
C1_UnchangedRenderIsValid ==
    (Pressed /\ RenderUnchanged) =>
        /\ upd.res.outcome = "valid"
        /\ upd.res.menu = upd.shownMenu
        /\ upd.res.chain = <<"navInstaller">> \o NowButton.middleware

\* the sub menu's second button is pressed and runs its two handlers
C1_Witness ==
    /\ Pressed /\ RenderUnchanged
    /\ upd.shownMenu = SubId /\ upd.c = 1
    /\ upd.res.outcome = "valid"
    /\ upd.res.chain = <<"navInstaller", "h2", "h3">>

(***************************************************************************)
(* C2: a well-formed token naming a known menu with outdated detection     *)
(* enabled, whose row or column lies outside the current grid, takes the   *)
(* outdated path: no handler is dispatched and no error is raised.         *)
(***************************************************************************)
C2_OutOfGridIsOutdated ==
    (Pressed /\ WellFormedKnown /\ DetectionEnabled /\ ~TokInGrid) =>
        /\ upd.res.outcome = "outdated"
        /\ NoHandlerRun

FingerprintAccepts ==
    /\ TokFp # <<>>
    /\ TokType = <<102>>
    /\ TokHash = tinyHash(toNums(TokFp))

C3_WitnessThrows ==
    /\ Pressed /\ WellFormedKnown /\ TokInGrid /\ TokButton.type = "url"
    /\ DetectionEnabled /\ FingerprintAccepts
    /\ upd.res.error = "Cannot invoke handlers because menu is outdated!"

\* the token's tag type is not the one the menu uses now, or its hash is not
\* the one recomputed now: from the fingerprint value, or from the shape and
\* the label of the callback button at the token's position
TagMismatch ==
    \/ (TokFp # <<>>) # (TokType = <<102>>)
    \/ TokFp # <<>> /\ TokHash # tinyHash(toNums(TokFp))
    \/ /\ TokFp = <<>>
       /\ IsHexNumber(TokRowStr) /\ IsHexNumber(TokColStr)
       /\ TokOnCallback
       /\ TokHash # tinyHash(Lengths(TokRange) \o uniform(sess, TokButton.text, <<>>))

\* the data passes the format checks of the middleware and names a known menu
Resolved ==
    /\ TokRowStr # <<>> /\ TokColStr # <<>>
    /\ TokType \in {<<104>>, <<102>>}
    /\ TokId \in DOMAIN menus

NonNegative == ~(parseInt16(TokRowStr).val < 0) /\ ~(parseInt16(TokColStr).val < 0)

(***************************************************************************)
(* C4 as stated: a click whose tag type does not match the mode the menu   *)
(* uses now, or whose hash differs from the hash recomputed at click time, *)
(* takes the outdated path and its handler chain is not run.               *)
(***************************************************************************)
C4_TagMismatchIsOutdated ==
    (Processed /\ Resolved /\ NonNegative /\ TagMismatch) =>
        /\ upd.res.outcome = "outdated"
        /\ NoHandlerRun

(***************************************************************************)
(* C4 as amended: the same, for a menu whose outdated detection is enabled *)
(* and a token whose coordinates are not negative.                         *)
(***************************************************************************)
C4_TagMismatchIsOutdatedWhenEnabled ==
    (Processed /\ Resolved /\ NonNegative /\ DetectionEnabled /\ TagMismatch) =>
        /\ upd.res.outcome = "outdated"
        /\ NoHandlerRun

\* a token whose hash was replaced is flagged under a custom fingerprint
C4_Witness ==
    /\ Processed /\ Resolved /\ DetectionEnabled
    /\ upd.src = "forged"
    /\ TokFp # <<>> /\ TokType = <<102>> /\ TokHash = <<48, 48, 48, 48>>
    /\ TokOnCallback
    /\ upd.res.outcome = "outdated"

\* the pressed button's menu checks for outdated menus and used the
\* structural heuristic both when the keyboard was sent and now
StructuralMode ==
    /\ PressedMenu.options.onMenuOutdated.kind # "false"
    /\ SentFp = <<>> /\ NowFp = <<>>

\* the grid's shape or the pressed button's label changed since the send
ShapeOrLabelChanged ==
    \/ Lengths(NowRange) # Lengths(SentRange)
    \/ NowInGrid /\ NowButton.type = "cb" /\ NowLabel # SentLabel

\* the structural hash of the pressed button, when sent and now
SentHash == tinyHash(Lengths(SentRange) \o toNums(SentLabel))
NowHash == tinyHash(Lengths(NowRange) \o toNums(NowLabel))

(***************************************************************************)
(* C5 as stated: with structural fingerprinting, any change of the grid's  *)
(* shape or of the pressed button's label between send and click makes the *)
(* click outdated.                                                         *)
(***************************************************************************)
C5_AnyChangeIsOutdated ==
    (Pressed /\ StructuralMode /\ ShapeOrLabelChanged) =>
        upd.res.outcome = "outdated"

(***************************************************************************)
(* C5 as amended: with structural fingerprinting, a click on a sent button *)
(* is outdated exactly when its position no longer holds a callback button *)
(* or the hash string of the new shape and label differs from the one of   *)
(* the shape and label that were sent; a change that leaves the hash       *)
(* string alone is valid and runs the handlers of the button now there.    *)
(***************************************************************************)
C5_ChangeOfHashIsOutdated ==
    (Pressed /\ StructuralMode) =>
        IF ~NowInGrid \/ NowButton.type # "cb" \/ NowHash # SentHash
        THEN upd.res.outcome = "outdated" /\ NoHandlerRun
        ELSE /\ upd.res.outcome = "valid"
             /\ upd.res.chain = <<"navInstaller">> \o NowButton.middleware

\* a changed label alone makes the click outdated
C5_Witness ==
    /\ Pressed /\ StructuralMode
    /\ Lengths(NowRange) = Lengths(SentRange)
    /\ NowButton.type = "cb"
    /\ NowLabel # SentLabel
    /\ NowHash # SentHash
    /\ upd.res.outcome = "outdated"

\* a changed label whose hash string is the sent one's stays valid
C5_WitnessCollision ==
    /\ Pressed /\ StructuralMode
    /\ ShapeOrLabelChanged
    /\ NowHash = SentHash
    /\ upd.res.outcome = "valid"

(***************************************************************************)
(* C6: when the payload carried in the token differs from the payload the  *)
(* callback button now at that position produces, the click is outdated    *)
(* and the button's handlers are not run (stated for menus that check for  *)
(* outdated menus).                                                        *)
(***************************************************************************)
C6_PayloadMismatchIsOutdated ==
    (Pressed /\ WellFormedKnown /\ DetectionEnabled /\ TokOnCallback
        /\ TokPayload # uniform(sess, TokButton.payload, <<>>)) =>
        /\ upd.res.outcome = "outdated"
        /\ NoHandlerRun

(***************************************************************************)
(* C7: with a custom fingerprint whose non-empty value is the same at send *)
(* and at click, a click on a sent button is valid and runs the handlers   *)
(* of the callback button now at its position, whatever happened to the    *)
(* label.                                                                  *)
(***************************************************************************)
C7_SameFingerprintIsValid ==
    (Pressed /\ SentFp # <<>> /\ NowFp = SentFp
        /\ NowInGrid /\ NowButton.type = "cb") =>
        /\ upd.res.outcome = "valid"
        /\ upd.res.error = ""
        /\ upd.res.chain = <<"navInstaller">> \o NowButton.middleware

C7_Witness ==
    /\ Pressed /\ SentFp # <<>> /\ NowFp = SentFp
    /\ NowInGrid /\ NowButton.type = "cb"
    /\ NowLabel # SentLabel
    /\ NowHash # SentHash
    /\ upd.res.outcome = "valid"

\* the outdated policy of the menu the update's data names
Policy == TokMenu.options.onMenuOutdated

(***************************************************************************)
(* C8: when a click is outdated, no handler of any button runs; what runs  *)
(* is the default notice-and-rewrite or the custom outdated middleware     *)
(* (behind the navigation installer) and nothing else.                     *)
(***************************************************************************)
C8_OutdatedRunsOnlyPolicy ==
    (Processed /\ upd.res.outcome = "outdated") =>
        /\ NoHandlerRun
        /\ IF Policy.kind = "string"
           THEN /\ upd.res.chain = <<>>
                /\ upd.res.calls # <<>>
           ELSE /\ Policy.kind = "mw"
                /\ upd.res.chain = <<"navInstaller", Policy.mw>>
                /\ upd.res.calls = <<>>

\* a sent button whose label changed, under a custom outdated middleware
C8_Witness ==
    /\ Pressed
    /\ upd.res.outcome = "outdated"
    /\ Policy.kind = "mw"
    /\ SentButton.middleware # <<>>
    /\ upd.res.chain = <<"navInstaller", Policy.mw>>

C10_DisabledRunsHandlers ==
    (Processed /\ WellFormedKnown /\ ~DetectionEnabled /\ TokOnCallback) =>
        /\ upd.res.outcome = "valid"
        /\ upd.res.chain = TokChain

(***************************************************************************)
(* C11: a click whose data lacks a row or a column field, whose tag type   *)
(* is neither "h" nor "f", or whose menu id is not in the registry is      *)
(* ignored: no handler, no outdated policy, no outgoing call, no error.    *)
(***************************************************************************)
C11_UnknownFormatIsIgnored ==
    (Processed /\ ~Resolved) =>
        /\ upd.res.outcome = "ignored"
        /\ upd.res.error = ""
        /\ upd.res.chain = <<>>
        /\ upd.res.calls = <<>>

\* a token of a shown button whose menu id was replaced by an unknown one
C11_Witness ==
    /\ Processed /\ upd.src = "forged"
    /\ TokId = UnknownId
    /\ TokRowStr # <<>> /\ TokColStr # <<>> /\ TokType \in {<<104>>, <<102>>}
    /\ upd.res.outcome = "ignored"

(***************************************************************************)
(* C12: whatever the callback data is, processing ends as ignored,         *)
(* outdated or valid, and no exception escapes.                            *)
(***************************************************************************)
C12_NeverRaises ==
    Processed =>
        /\ upd.res.outcome \in {"ignored", "outdated", "valid"}
        /\ upd.res.error = ""

(***************************************************************************)
(* C13 as stated: a token is consumed by its first click; when the token   *)
(* whose handlers were dispatched comes again, the click is outdated.      *)
(***************************************************************************)
C13_SecondClickIsOutdated ==
    (Pressed /\ upd.again) => upd.res.outcome = "outdated"

(***************************************************************************)
(* C13 as amended: a token is not consumed.  When the token whose handlers *)
(* were dispatched is clicked again while the menu's render is unchanged   *)
(* since the keyboard was sent, the click is valid again and the handler   *)
(* chain of the button runs a second time.                                 *)
(***************************************************************************)
C13_SecondClickIsValidAgain ==
    (Pressed /\ upd.again /\ RenderUnchanged) =>
        /\ upd.res.outcome = "valid"
        /\ upd.res.chain = <<"navInstaller">> \o NowButton.middleware

C13_Witness ==
    /\ Pressed /\ upd.again /\ RenderUnchanged
    /\ upd.data = dispatched
    /\ upd.res.outcome = "valid"
    /\ NowButton.middleware # <<>>

\* the callback_data size Telegram accepts, in bytes
MaxCallbackData == 64

RECURSIVE countBytes(_)
\* textEncoder.encode(str).length: the UTF-8 length of a string
countBytes(str) ==
    IF str = <<>> THEN 0
    ELSE (IF str[1] < 128 THEN 1 ELSE IF str[1] < 2048 THEN 2
          ELSE IF str[1] < 65536 THEN 3 ELSE 4) + countBytes(Tail(str))

\* render emitted a token for the button
Emitted == wire.stage \in {"emitted", "decoded"}

(***************************************************************************)
(* C14: a callback button whose token would exceed 64 bytes of UTF-8 is    *)
(* refused when it is added to the layout, so no emitted token is longer   *)
(* than 64 bytes.                                                          *)
(***************************************************************************)
C14_NoOverlongToken ==
    Emitted => countBytes(wire.token) <= MaxCallbackData

\* the callback tokens of the keyboard shown
ShownTokens ==
    {kbd[i][j].callback_data : <<i, j>> \in
        {ij \in (1..Len(kbd)) \X (1..3) :
            ij[2] <= Len(kbd[ij[1]]) /\ kbd[ij[1]][ij[2]].type = "cb"}}

\* the fingerprint tag of a token: what follows its fourth "/"
TagOf(t) == join(Rest(split(t, Slash), 4), Slash)

(***************************************************************************)
(* C15: every token render emits is id/row/col/payload/ followed by a tag  *)
(* type "h" or "f" and a hash of exactly 4 characters.                     *)
(***************************************************************************)
C15_HashHasFourCharacters ==
    \A t \in ShownTokens :
        /\ Len(split(t, Slash)) >= 5
        /\ IsHexNumber(split(t, Slash)[2])
        /\ IsHexNumber(split(t, Slash)[3])
        /\ TagOf(t) # <<>>
        /\ TagOf(t)[1] \in {104, 102}
        /\ Len(Tail(TagOf(t))) = 4

\* the tag render appended to the button's token
WireTag == FingerprintTag(wire.fp, <<1, 1>>, LabelM7)

(***************************************************************************)
(* C16: splitting an emitted token on "/" and parsing row and column as    *)
(* hexadecimal recovers the menu id, the row, the column and the payload,  *)
(* and the remainder recovers the tag type and the hash, also when the     *)
(* hash contains "/".                                                      *)
(***************************************************************************)
C16_RoundTrip ==
    wire.stage = "decoded" =>
        /\ wire.decoded.id = wire.id
        /\ wire.decoded.row = [nan |-> FALSE, val |-> wire.row]
        /\ wire.decoded.col = [nan |-> FALSE, val |-> wire.col]
        /\ wire.decoded.payload = wire.payload
        /\ wire.decoded.type = <<WireTag[1]>>
        /\ wire.decoded.hash = Tail(WireTag)

C16_Witness ==
    /\ wire.stage = "decoded"
    /\ wire.row = 4095 /\ wire.col = 255
    /\ wire.payload = PayloadX
    /\ Includes(wire.decoded.hash, Slash)
    /\ wire.decoded.row.val = 4095

\* the number of "/" in a string
Slashes(str) == Cardinality({i \in 1..Len(str) : str[i] = Slash})

(***************************************************************************)
(* C17: a menu whose identifier contains "/" is refused by the             *)
(* constructor, a callback button whose payload contains "/" makes render  *)
(* fail, and the part of every emitted token before the fingerprint tag    *)
(* has exactly four "/".                                                   *)
(***************************************************************************)
C17_FramingIsKept ==
    /\ Includes(wire.id, Slash) => wire.stage \in {"new", "rejected"}
    /\ Includes(wire.payload, Slash) => ~Emitted
    /\ Emitted =>
          Slashes(SubSeq(wire.token, 1, Len(wire.token) - Len(WireTag))) = 4

C17_Witness ==
    /\ wire.stage = "rejected"
    /\ Includes(wire.id, Slash)

C17_WitnessRender ==
    /\ wire.stage = "failed"
    /\ Includes(wire.payload, Slash)

\* this step is a call of register
IsRegister == heap'.last.op = "register"
\* the registry register was called on, before and after the call
TargetBefore == IndexOf(heap, heap'.last.this)
TargetAfter == IndexOf(heap', heap'.last.this)
\* the identifiers the call brings in: those of the registries of its menus
Incoming ==
    UNION {DOMAIN IndexOf(heap, heap'.last.arr[i]) : i \in 1..Len(heap'.last.arr)}

(***************************************************************************)
(* C18: register throws when an identifier it brings in (of a passed menu  *)
(* or of a menu in a passed menu's registry) is already in the target      *)
(* registry, and no menu of the target registry is ever replaced.          *)
(***************************************************************************)
C18_RegisterKeepsIdentifiersStep ==
    IsRegister =>
        /\ (Incoming \cap DOMAIN TargetBefore # {}) => heap'.last.err
        /\ \A id \in DOMAIN TargetBefore : TargetAfter[id] = TargetBefore[id]

C18_RegisterKeepsIdentifiers == [][C18_RegisterKeepsIdentifiersStep]_vars

(***************************************************************************)
(* C19: all menus of a tree share one registry: every menu stored in the   *)
(* registry of a menu has that very registry.                              *)
(***************************************************************************)
C19_OneRegistryPerTree ==
    heap.last.op # "none" =>
        \A x \in TreeObjs : \A i \in DOMAIN IndexOf(heap, x) :
            heap.index[IndexOf(heap, x)[i]] = heap.index[x]

\* this step is a call of ctx.menu.back()
IsBack == heap'.last.op = "back"
\* the menus register was called with
Registered == {heap'.last.arr[i] : i \in 1..Len(heap'.last.arr)}

(***************************************************************************)
(* C20: after a successful register the parent of every registered menu is *)
(* the parent id (the id of the menu register was called on, or the one    *)
(* passed explicitly) and every other menu, those of the registered menus' *)
(* registries included, keeps its parent; back() of a menu whose parent id *)
(* is in its registry records the menu stored under that id as target,     *)
(* and throws otherwise.                                                   *)
(***************************************************************************)
C20_ParentAndBackStep ==
    /\ (IsRegister /\ ~heap'.last.err) =>
          /\ \A m \in Registered : heap'.parent[m] = ParentIs(heap'.last.parent)
          /\ \A o \in TreeObjs \ Registered : heap'.parent[o] = heap.parent[o]
    /\ IsBack =>
          LET o == heap'.last.menu
              res == heap'.last.res
          IN IF heap.parent[o].set /\ heap.parent[o].id \in DOMAIN IndexOf(heap, o)
             THEN /\ res.error = ""
                  /\ res.target = IndexOf(heap, o)[heap.parent[o].id]
             ELSE res.error # ""

C20_ParentAndBack == [][C20_ParentAndBackStep]_vars

\* sub.register(leaf), root.register(sub), then back() in a handler of "sub":
\* the target is "root", and "leaf" still has parent "sub"
C20_Witness ==
    /\ heap.last.op = "back"
    /\ heap.last.menu = 2
    /\ heap.parent[2] = ParentIs(RootId)
    /\ heap.last.res.error = ""
    /\ heap.last.res.target = 1
    /\ heap.parent[3] = ParentIs(SubId)
    /\ heap.index[3] = heap.index[1]

(***************************************************************************)
(* C21: after any sequence of register calls, m.at(m.id) returns m itself, *)
(* for every menu m.                                                       *)
(***************************************************************************)
C21_AtOwnIdIsSelf ==
    \A m \in TreeObjs :
        /\ ~at(heap, m, ObjId[m]).err
        /\ at(heap, m, ObjId[m]).menu = m

(***************************************************************************)
(* The navigation installer: ctx.menu, deferred and immediate navigation   *)
(***************************************************************************)
\* a handler performs at most MaxSteps navigation actions and API calls
MaxSteps == 3

INJECT_METHODS ==
    {"editMessageText", "editMessageCaption", "editMessageMedia",
     "editMessageReplyMarkup", "stopPoll"}

\* undefined, for chat and message identifiers and for targetMenu
NoId == 0
NoMenu == 0

\* ctx.chat?.id and ctx.msg?.message_id of a click on a chat message, and of
\* a click on a message sent via an inline query (it has neither)
ChatUpdate == [chat |-> 1, msg |-> 1]
InlineUpdate == [chat |-> NoId, msg |-> NoId]

\* the reply_markup key of a payload: absent, supplied by the caller, or
\* assigned by the transformer (a Menu, or undefined after close)
Absent == [kind |-> "absent", menu |-> NoMenu]
Own == [kind |-> "own", menu |-> NoMenu]
Markup(targetMenu) ==
    [kind |-> IF targetMenu = NoMenu THEN "undefined" ELSE "menu",
     menu |-> targetMenu]

\* the payload of a call that addresses the clicked message: chat_id and
\* message_id, or inline_message_id when the update has no chat
Clicked(ctx, markup) ==
    [chat_id |-> ctx.chat, message_id |-> ctx.msg,
     inline_message_id |-> ctx.chat = NoId, reply_markup |-> markup]
\* the payload of a call that addresses another message of another chat
Elsewhere(markup) ==
    [chat_id |-> 2, message_id |-> 2,
     inline_message_id |-> FALSE, reply_markup |-> markup]
\* the payload of answerCallbackQuery(): no chat, no message, no other argument
Answer ==
    [chat_id |-> NoId, message_id |-> NoId,
     inline_message_id |-> FALSE, reply_markup |-> Absent]
\* the payload of a call that addresses the chat but no message
ToChat(ctx) ==
    [chat_id |-> ctx.chat, message_id |-> NoId,
     inline_message_id |-> FALSE, reply_markup |-> Absent]

\* a variant of the transformer that overwrites a reply_markup of the caller
transformerOverwrites(n, by, method, payload) ==
    LET hit == /\ method \in INJECT_METHODS
               /\ payload.chat_id # NoId
               /\ payload.chat_id = n.ctx.chat
               /\ payload.message_id # NoId
               /\ payload.message_id = n.ctx.msg
        sent == IF hit THEN [payload EXCEPT !.reply_markup = Markup(n.targetMenu)]
                ELSE payload
    IN [n EXCEPT !.injectMenu = IF hit THEN FALSE ELSE @,
                 !.log = Append(@, [ev |-> "call", by |-> by, method |-> method,
                                    asked |-> payload, payload |-> sent,
                                    injected |-> hit, pending |-> n.injectMenu])]

\* a variant of the transformer that asks for a chat and a message, not for
\* those of the click
transformerAnyMessage(n, by, method, payload) ==
    LET hit == /\ method \in INJECT_METHODS
               /\ payload.reply_markup.kind = "absent"
               /\ payload.chat_id # NoId
               /\ payload.message_id # NoId
        sent == IF hit THEN [payload EXCEPT !.reply_markup = Markup(n.targetMenu)]
                ELSE payload
    IN [n EXCEPT !.injectMenu = IF hit THEN FALSE ELSE @,
                 !.log = Append(@, [ev |-> "call", by |-> by, method |-> method,
                                    asked |-> payload, payload |-> sent,
                                    injected |-> hit, pending |-> n.injectMenu])]

\* ctx.api.config.use((prev, method, payload, signal) => ...): the call that
\* leaves the installer, and the flag afterwards
transformer(n, by, method, payload) ==
    LET hit == /\ method \in INJECT_METHODS
               /\ payload.reply_markup.kind = "absent"
               /\ payload.chat_id # NoId
               /\ payload.chat_id = n.ctx.chat
               /\ payload.message_id # NoId
               /\ payload.message_id = n.ctx.msg
        sent == IF hit THEN [payload EXCEPT !.reply_markup = Markup(n.targetMenu)]
                ELSE payload
    IN [n EXCEPT !.injectMenu = IF hit THEN FALSE ELSE @,
                 !.log = Append(@, [ev |-> "call", by |-> by, method |-> method,
                                    asked |-> payload, payload |-> sent,
                                    injected |-> hit, pending |-> n.injectMenu])]

\* async function nav({ immediate }, menu); ctx.editMessageReplyMarkup()
\* addresses the clicked message and passes no reply_markup
nav(n, immediate, menu, by) ==
    LET rec == [n EXCEPT !.injectMenu = TRUE, !.targetMenu = menu]
    IN IF immediate
       THEN transformer(rec, by, "editMessageReplyMarkup", Clicked(n.ctx, Absent))
       ELSE rec

\* the operations of the control panel a handler can call
PanelOps ==
    {[name |-> "update", to |-> <<>>], [name |-> "close", to |-> <<>>],
     [name |-> "back", to |-> <<>>],
     [name |-> "nav", to |-> SubId], [name |-> "nav", to |-> LeafId]}

\* a variant of controlPanel whose back() falls back to the menu itself
controlPanelBackToSelf(h, menu, op) ==
    CASE op.name = "update" -> [error |-> "", target |-> menu]
      [] op.name = "close" -> [error |-> "", target |-> NoMenu]
      [] op.name = "nav" ->
            IF at(h, menu, op.to).err THEN [error |-> "not known", target |-> NoMenu]
            ELSE [error |-> "", target |-> at(h, menu, op.to).menu]
      [] op.name = "back" ->
            IF back(h, menu).error # "" THEN [error |-> "", target |-> menu]
            ELSE back(h, menu)

\* const controlPanel = { update, close, nav, back }: the menu handed to nav(),
\* or the error thrown before nav() is reached
controlPanel(h, menu, op) ==
    CASE op.name = "update" -> [error |-> "", target |-> menu]
      [] op.name = "close" -> [error |-> "", target |-> NoMenu]
      [] op.name = "nav" ->
            IF at(h, menu, op.to).err THEN [error |-> "not known", target |-> NoMenu]
            ELSE [error |-> "", target |-> at(h, menu, op.to).menu]
      [] op.name = "back" -> back(h, menu)

\* two registries: root.register(sub), and leaf.register(sub', "root") whose
\* parent identifier is not in the registry of leaf
NavHeap == register(register(NewHeap, 1, <<2>>, RootId).h, 3, <<4>>, RootId).h
NavMenus == {1, 2, 4}

\* the calls a handler makes on its own
HandlerCalls ==
    {[method |-> "editMessageText", to |-> "clicked", own |-> FALSE],
     [method |-> "editMessageText", to |-> "clicked", own |-> TRUE],
     [method |-> "editMessageText", to |-> "elsewhere", own |-> FALSE],
     [method |-> "stopPoll", to |-> "clicked", own |-> FALSE],
     [method |-> "sendMessage", to |-> "chat", own |-> FALSE]}

PayloadOf(ctx, c) ==
    CASE c.to = "clicked" -> Clicked(ctx, IF c.own THEN Own ELSE Absent)
      [] c.to = "elsewhere" -> Elsewhere(IF c.own THEN Own ELSE Absent)
      [] c.to = "chat" -> ToChat(ctx)

\* a valid click on a menu: the lazy handler reached "Run handler" with the
\* options the constructor stored, autoAnswer left out or set to false
NavInit ==
    /\ inst \in {[stage |-> "chosen", menu |-> m, ctx |-> c,
                   options |-> MenuCtor(ObjId[m], RawOptions(a, OutdatedUnset, Undefined)).menu.options,
                   raw |-> a] :
                    m \in NavMenus, c \in {ChatUpdate, InlineUpdate},
                    a \in {"undef", "false"}}
    /\ heap = NavHeap
    /\ menus = <<>>
    /\ sess = 0
    /\ kbd = <<>>
    /\ sentMenu = <<>>
    /\ sentSess = 0
    /\ upd = NoUpdate
    /\ pc = "idle"
    /\ dispatched = <<>>
    /\ wire = NoWire
    /\ lay = NoLay
    /\ hsh = NoHsh

\* the local variables of the installer, its transformer and ctx.menu, up to
\* "await next()"
Installed(n) ==
    [stage |-> "handlers", menu |-> n.menu, ctx |-> n.ctx,
     options |-> n.options, raw |-> n.raw,
     injectMenu |-> FALSE, targetMenu |-> n.menu,
     panel |-> TRUE, log |-> <<>>, steps |-> 0, raised |-> "", error |-> ""]

\* a variant of Install that returns mw whatever autoAnswer is
InstallNoFork ==
    /\ inst.stage = "chosen"
    /\ inst' = Installed(inst)
    /\ UNCHANGED <<menus, sess, kbd, sentMenu, sentSess, upd, pc, dispatched, wire, heap, lay, hsh>>

\* the middleware the lazy handler returned starts to run: mw, or the composer
\* that forks ctx.answerCallbackQuery() next to mw when autoAnswer is set
Install ==
    /\ inst.stage = "chosen"
    /\ inst' = IF inst.options.autoAnswer
               THEN transformer(Installed(inst), "fork", "answerCallbackQuery", Answer)
               ELSE Installed(inst)
    /\ UNCHANGED <<menus, sess, kbd, sentMenu, sentSess, upd, pc, dispatched, wire, heap, lay, hsh>>

\* a handler calls ctx.menu.update/close/back/nav, deferred or immediate, and
\* goes on (it catches the error if the call throws)
HandlerNavigates ==
    \E op \in PanelOps, immediate \in BOOLEAN :
        LET r == controlPanel(heap, inst.menu, op)
            ev == [ev |-> "action", op |-> op, immediate |-> immediate,
                   error |-> r.error, target |-> r.target,
                   known |-> DOMAIN IndexOf(heap, inst.menu),
                   before |-> <<inst.injectMenu, inst.targetMenu>>]
            logged == [inst EXCEPT !.log = Append(@, ev), !.steps = @ + 1]
        IN /\ inst.stage = "handlers"
           /\ inst.steps < MaxSteps
           /\ inst' = IF r.error # "" THEN logged
                      ELSE nav(logged, immediate, r.target, "immediate")
           /\ UNCHANGED <<menus, sess, kbd, sentMenu, sentSess, upd, pc, dispatched, wire, heap, lay, hsh>>

\* a handler calls the API itself
HandlerCallsApi ==
    \E c \in HandlerCalls :
        /\ inst.stage = "handlers"
        /\ inst.steps < MaxSteps
        /\ inst' = transformer([inst EXCEPT !.steps = @ + 1], "handler",
                               c.method, PayloadOf(inst.ctx, c))
        /\ UNCHANGED <<menus, sess, kbd, sentMenu, sentSess, upd, pc, dispatched, wire, heap, lay, hsh>>

\* a variant of ChainCompletes without the finally block
ChainCompletesNoFinally ==
    \E fails \in BOOLEAN :
        LET sent == IF inst.injectMenu
                    THEN nav(inst, TRUE, inst.targetMenu, "completion")
                    ELSE inst
        IN /\ inst.stage = "handlers"
           /\ fails => inst.injectMenu
           /\ inst' = [sent EXCEPT !.stage = "ended",
                                   !.panel = fails,
                                   !.raised = IF fails THEN "api" ELSE "",
                                   !.error = IF fails THEN "api" ELSE ""]
           /\ UNCHANGED <<menus, sess, kbd, sentMenu, sentSess, upd, pc, dispatched, wire, heap, lay, hsh>>

\* next() returned: "if (injectMenu) await nav({ immediate: true }, targetMenu)",
\* a call the API may reject, then the finally block
ChainCompletes ==
    \E fails \in BOOLEAN :
        LET sent == IF inst.injectMenu
                    THEN nav(inst, TRUE, inst.targetMenu, "completion")
                    ELSE inst
        IN /\ inst.stage = "handlers"
           /\ fails => inst.injectMenu
           /\ inst' = [sent EXCEPT !.stage = "ended",
                                   !.panel = FALSE,
                                   !.raised = IF fails THEN "api" ELSE "",
                                   !.error = IF fails THEN "api" ELSE ""]
           /\ UNCHANGED <<menus, sess, kbd, sentMenu, sentSess, upd, pc, dispatched, wire, heap, lay, hsh>>

\* next() threw (a handler threw, or did not catch what a call threw): the
\* finally block runs and the error leaves the installer
ChainThrows ==
    /\ inst.stage = "handlers"
    /\ inst' = [inst EXCEPT !.stage = "ended", !.panel = FALSE,
                            !.raised = "handler", !.error = "handler"]
    /\ UNCHANGED <<menus, sess, kbd, sentMenu, sentSess, upd, pc, dispatched, wire, heap, lay, hsh>>

NavNext ==
    \/ Install
    \/ HandlerNavigates
    \/ HandlerCallsApi
    \/ ChainCompletes
    \/ ChainThrows

NavSpec == NavInit /\ [][NavNext]_vars

(***************************************************************************)
(* Vocabulary of the properties of the navigation installer                *)
(***************************************************************************)
NavRunning == inst.stage \in {"handlers", "ended"}
NavLog == IF NavRunning THEN inst.log ELSE <<>>
\* the handlers returned and nothing was thrown by them
CompletedNormally == inst.stage = "ended" /\ inst.raised # "handler"

IsAction(i) == NavLog[i].ev = "action"
\* a navigation action that reached nav()
Navigated(i) == IsAction(i) /\ NavLog[i].error = ""
IsCall(i) == NavLog[i].ev = "call"
ByHandler(i) == IsCall(i) /\ NavLog[i].by = "handler"
AtCompletion(i) == IsCall(i) /\ NavLog[i].by = "completion"
Dedicated(i) == IsCall(i) /\ NavLog[i].by \in {"immediate", "completion"}
EditStyle(i) == NavLog[i].method \in INJECT_METHODS
\* the call addresses the message whose button was clicked
ForClicked(i) == NavLog[i].asked \in {Clicked(inst.ctx, Absent), Clicked(inst.ctx, Own)}
SuppliesMarkup(i) == NavLog[i].asked.reply_markup.kind # "absent"
\* the grid the call leaves with is the given target (no grid for no target)
Carries(i, target) == NavLog[i].payload.reply_markup = Markup(target)
\* the last navigation action before event j that recorded a target, 0 if none
LastNav(j) ==
    CHOOSE i \in 0..(j - 1) :
        /\ i = 0 \/ Navigated(i)
        /\ \A k \in (i + 1)..(j - 1) : ~Navigated(k)
NoNavAfter(i) == \A k \in (i + 1)..Len(NavLog) : ~Navigated(k)
\* the identifiers of the menus that share the registry of the clicked menu
RegistryIds == {ObjId[o] : o \in {x \in TreeObjs : heap.index[x] = heap.index[inst.menu]}}
FailsBack(i) ==
    IsAction(i) /\ NavLog[i].op.name = "back" /\ ~heap.parent[inst.menu].set
FailsNav(i) ==
    IsAction(i) /\ NavLog[i].op.name = "nav" /\ NavLog[i].op.to \notin RegistryIds
\* a call that a navigation target went into, or that navigation caused
Consumes(k) == IsCall(k) /\ (NavLog[k].injected \/ Dedicated(k))
ForkCalls == {k \in DOMAIN NavLog : IsCall(k) /\ NavLog[k].by = "fork"}

(***************************************************************************)
(* C22: back() on a menu without a parent and nav(id) with an identifier   *)
(* unknown to the registry raise an error (that of nav lists all known     *)
(* identifiers), deferred or immediate; the recorded target and the        *)
(* pending flag stay as they were and no call is issued.                   *)
(***************************************************************************)
C22_FailedNavigationChangesNothing ==
    \A i \in DOMAIN NavLog :
        (FailsBack(i) \/ FailsNav(i)) =>
            /\ NavLog[i].error # ""
            /\ FailsNav(i) => NavLog[i].known = RegistryIds
            /\ i = Len(NavLog) =>
                    <<inst.injectMenu, inst.targetMenu>> = NavLog[i].before
            /\ i < Len(NavLog) =>
                    ~(IsCall(i + 1) /\ NavLog[i + 1].by = "immediate")

\* a deferred back() without parent, then an immediate nav() to an unknown
\* identifier, both while a target is pending
C22_Witness ==
    /\ inst.stage = "handlers"
    /\ \E i \in DOMAIN NavLog :
            /\ i = Len(NavLog)
            /\ FailsNav(i) /\ NavLog[i].immediate
            /\ NavLog[i].before[1]
            /\ inst.injectMenu
            /\ \E j \in 1..(i - 1) :
                    FailsBack(j) /\ ~NavLog[j].immediate /\ NavLog[j].before[1]

(***************************************************************************)
(* C23: after a deferred update/close/back/nav, an edit-style call of a    *)
(* handler for the clicked message without reply_markup gets the most      *)
(* recently recorded target injected, the pending flag is cleared, and no  *)
(* dedicated call is issued when the chain completes.                      *)
(***************************************************************************)
C23_DeferredTargetIsInjected ==
    \A j \in DOMAIN NavLog :
        (/\ ByHandler(j) /\ EditStyle(j) /\ ForClicked(j) /\ ~SuppliesMarkup(j)
         /\ LastNav(j) > 0
         /\ ~NavLog[LastNav(j)].immediate) =>
            /\ NavLog[j].injected
            /\ Carries(j, NavLog[LastNav(j)].target)
            /\ (j = Len(NavLog) /\ inst.stage = "handlers") => ~inst.injectMenu
            /\ (CompletedNormally /\ NoNavAfter(j)) =>
                    \A k \in DOMAIN NavLog : ~AtCompletion(k)

(***************************************************************************)
(* C24: after a deferred update/close/back/nav, if the chain completes     *)
(* normally and no injectable edit call came after the last navigation     *)
(* action, exactly one dedicated edit call is issued at completion and it  *)
(* carries the last recorded target.                                       *)
(***************************************************************************)
C24_DeferredNavigationIsGuaranteed ==
    LET last == LastNav(Len(NavLog) + 1)
        handlersEnd == IF NavLog # <<>> /\ AtCompletion(Len(NavLog))
                       THEN Len(NavLog) - 1 ELSE Len(NavLog)
    IN (/\ CompletedNormally
        /\ last > 0
        /\ ~NavLog[last].immediate
        /\ \A k \in (last + 1)..handlersEnd : ~(IsCall(k) /\ NavLog[k].injected)) =>
            /\ Cardinality({k \in DOMAIN NavLog : AtCompletion(k)}) = 1
            /\ AtCompletion(Len(NavLog))
            /\ NavLog[Len(NavLog)].method = "editMessageReplyMarkup"
            /\ Carries(Len(NavLog), NavLog[last].target)

(***************************************************************************)
(* C25: an immediate update/close/back/nav issues its dedicated edit call  *)
(* at once, the call carries the target of the action, and without later   *)
(* navigation actions no dedicated call follows at completion.             *)
(***************************************************************************)
C25_ImmediateNavigationCallsOnce ==
    \A i \in DOMAIN NavLog :
        (Navigated(i) /\ NavLog[i].immediate) =>
            /\ i < Len(NavLog)
            /\ IsCall(i + 1) /\ NavLog[i + 1].by = "immediate"
            /\ NavLog[i + 1].method = "editMessageReplyMarkup"
            /\ Carries(i + 1, NavLog[i].target)
            /\ (CompletedNormally /\ NoNavAfter(i)) =>
                    \A k \in DOMAIN NavLog : ~AtCompletion(k)

C27_TargetsAreConsumedOnce ==
    /\ \A i \in DOMAIN NavLog :
            Navigated(i) =>
                Cardinality({k \in (i + 1)..Len(NavLog) :
                                Consumes(k) /\ LastNav(k) = i}) <= 1
    /\ Cardinality({k \in DOMAIN NavLog : AtCompletion(k)}) <= 1
    /\ \A k \in DOMAIN NavLog :
            (Consumes(k) /\ ~AtCompletion(k) /\ LastNav(k) > 0 /\ NoNavAfter(k)) =>
                \A c \in DOMAIN NavLog : ~AtCompletion(c)

C28_WitnessHandler ==
    /\ inst.stage = "ended"
    /\ inst.raised = "handler"
    /\ inst.injectMenu
    /\ ~inst.panel
    /\ inst.error = "handler"

(***************************************************************************)
(* C30: with autoAnswer left out every valid click is answered by exactly  *)
(* one answerCallbackQuery without arguments, whether the handlers succeed *)
(* or throw; with autoAnswer false the menu answers nothing.               *)
(***************************************************************************)
C30_AutoAnswerAnswersOnce ==
    NavRunning =>
        /\ inst.raw = "undef" =>
                /\ Cardinality(ForkCalls) = 1
                /\ \A k \in ForkCalls :
                        /\ NavLog[k].method = "answerCallbackQuery"
                        /\ NavLog[k].payload = Answer
        /\ inst.raw = "false" =>
                \A k \in DOMAIN NavLog :
                    IsCall(k) => NavLog[k].method # "answerCallbackQuery"

\* the click was answered and a handler threw
C30_Witness ==
    /\ inst.stage = "ended"
    /\ inst.raised = "handler"
    /\ inst.raw = "undef"
    /\ \E k \in ForkCalls : NavLog[k].method = "answerCallbackQuery"

\* autoAnswer is false and the handlers completed: nothing was answered
C30_WitnessDisabled ==
    /\ CompletedNormally
    /\ inst.raw = "false"
    /\ NavLog # <<>>
    /\ ForkCalls = {}

(***************************************************************************)
(* Freezing: register, the use of the middleware, later additions          *)
(***************************************************************************)
\* a menu receives at most MaxOps entries after its construction
MaxOps == 1
LiveObjs == {1, 2, 3}

\* the objects of NewHeap, the number of entries pushed to this[ops] of each,
\* the menus whose middleware() was installed and has handled an update, and
\* the menus that took part in a register call that returned
LiveHeap ==
    [index |-> NewHeap.index, maps |-> NewHeap.maps, parent |-> NewHeap.parent,
     frozen |-> NewHeap.frozen, regs |-> NewHeap.regs, last |-> NewHeap.last,
     used |-> {}, ops |-> [o \in TreeObjs |-> 0], part |-> {}]

LiveInit ==
    /\ heap = LiveHeap
    /\ menus = <<>>
    /\ sess = 0
    /\ kbd = <<>>
    /\ sentMenu = <<>>
    /\ sentSess = 0
    /\ upd = NoUpdate
    /\ pc = "idle"
    /\ dispatched = <<>>
    /\ wire = NoWire
    /\ inst = NoInst
    /\ lay = NoLay
    /\ hsh = NoHsh

\* menu o belongs to the registry of a menu that serves requests
Serving(h, o) == \E u \in h.used : h.index[u] = h.index[o]

\* this[ops].push(...range) as addRange calls it: after freeze() it throws
\* "You cannot change a menu after your bot started!"
push(h, o) ==
    IF o \in h.frozen THEN [err |-> TRUE, h |-> h]
    ELSE [err |-> FALSE, h |-> [h EXCEPT !.ops[o] = @ + 1]]

\* a button, a row or a range is added to menu o
LiveAdd ==
    \E o \in LiveObjs :
        /\ o \in heap.frozen \/ heap.ops[o] < MaxOps
        /\ heap' = [push(heap, o).h EXCEPT
                      !.last = [op |-> "add", menu |-> o,
                                err |-> push(heap, o).err,
                                live |-> Serving(heap, o)]]
        /\ UNCHANGED <<menus, sess, kbd, sentMenu, sentSess, upd, pc, dispatched, wire, inst, lay, hsh>>

\* bot.use(o) and a first update: middleware() builds the composer, whose
\* first middleware installs the transformer and calls next()
LiveUse ==
    \E o \in LiveObjs \ heap.used :
        /\ heap' = [heap EXCEPT !.used = @ \cup {o},
                                !.last = [op |-> "use", menu |-> o]]
        /\ UNCHANGED <<menus, sess, kbd, sentMenu, sentSess, upd, pc, dispatched, wire, inst, lay, hsh>>

\* this.register(menu) with the default parent
LiveRegister ==
    \E this \in LiveObjs :
        \E menu \in LiveObjs \ {this} :
            /\ heap.regs < MaxRegs
            /\ heap' = [register(heap, this, <<menu>>, ObjId[this]).h EXCEPT
                          !.regs = @ + 1,
                          !.part = IF register(heap, this, <<menu>>, ObjId[this]).err
                                   THEN @ ELSE @ \cup {this, menu},
                          !.last = [op |-> "register", menu |-> this, arg |-> menu,
                                    err |-> register(heap, this, <<menu>>, ObjId[this]).err,
                                    live |-> Serving(heap, this)]]
            /\ UNCHANGED <<menus, sess, kbd, sentMenu, sentSess, upd, pc, dispatched, wire, inst, lay, hsh>>

\* menu o is rendered: createRenderer reads this[ops] and reduces it onto a
\* keyboard of its own, frozen or not
LiveRender ==
    \E o \in LiveObjs :
        /\ heap.last # [op |-> "render", menu |-> o, err |-> FALSE, read |-> heap.ops[o]]
        /\ heap' = [heap EXCEPT
                      !.last = [op |-> "render", menu |-> o, err |-> FALSE,
                                read |-> heap.ops[o]]]
        /\ UNCHANGED <<menus, sess, kbd, sentMenu, sentSess, upd, pc, dispatched, wire, inst, lay, hsh>>

LiveNext == LiveAdd \/ LiveUse \/ LiveRegister \/ LiveRender

LiveSpec == LiveInit /\ [][LiveNext]_vars

(***************************************************************************)
(* C29: once the middleware of a menu tree has been installed and used,    *)
(* adding a button, row or range to a menu of the tree and registering     *)
(* another menu are rejected with an error.                                *)
(***************************************************************************)
C29_MutationAfterUseIsRejected ==
    (heap.last.op \in {"add", "register"} /\ heap.last.live) => heap.last.err

(***************************************************************************)
(* C40: a grid is injected only into calls of an edit-style method that    *)
(* carry no reply_markup and name the chat and the message of the click;   *)
(* every other call leaves with the payload it came with and with the      *)
(* pending flag as it was; a call that meets the conditions before any     *)
(* navigation action receives the menu of the click.                       *)
(***************************************************************************)
Injectable(k) ==
    /\ EditStyle(k)
    /\ ~SuppliesMarkup(k)
    /\ NavLog[k].asked.chat_id # NoId
    /\ NavLog[k].asked.chat_id = inst.ctx.chat
    /\ NavLog[k].asked.message_id # NoId
    /\ NavLog[k].asked.message_id = inst.ctx.msg

C40_InjectionOnlyIntoEditsOfTheClick ==
    \A k \in DOMAIN NavLog :
        IsCall(k) =>
            /\ NavLog[k].injected => Injectable(k)
            /\ ~Injectable(k) =>
                    /\ NavLog[k].payload = NavLog[k].asked
                    /\ (k = Len(NavLog) /\ inst.stage = "handlers") =>
                            inst.injectMenu = NavLog[k].pending
            /\ (Injectable(k) /\ LastNav(k) = 0) =>
                    /\ NavLog[k].injected
                    /\ Carries(k, inst.menu)

\* an edit of the clicked message before any navigation received the menu of
\* the click; after a deferred navigation an edit of a message of another
\* chat left as it came and the target is still pending
C40_Witness ==
    /\ inst.stage = "handlers"
    /\ inst.ctx = ChatUpdate
    /\ Len(NavLog) = 3
    /\ ByHandler(1) /\ Injectable(1) /\ NavLog[1].injected
    /\ Carries(1, inst.menu)
    /\ Navigated(2) /\ ~NavLog[2].immediate
    /\ ByHandler(3) /\ EditStyle(3)
    /\ NavLog[3].asked = Elsewhere(Absent)
    /\ NavLog[3].payload = Elsewhere(Absent)
    /\ NavLog[3].pending
    /\ inst.injectMenu

C39_NavigationKeepsHeap == [][heap' = heap]_vars

C39_WitnessHandler ==
    /\ pc = "done"
    /\ upd.src = "pressed"
    /\ upd.res.outcome = "valid"
    /\ Len(upd.res.chain) >= 2
    /\ DOMAIN menus = {RootId, SubId}

(***************************************************************************)
(* C38: a register call that returns freezes the menu it is called on and  *)
(* every menu passed to it: from then on every builder call on them throws *)
(* and leaves the operation list as it is, while rendering them and        *)
(* calling register on them again remain possible; a menu that never took  *)
(* part in a register call is never frozen and accepts builder calls.      *)
(***************************************************************************)
C38_Step ==
    /\ heap'.frozen = heap'.part
    /\ heap'.last.op = "add" =>
            /\ heap'.last.err <=> heap'.last.menu \in heap.part
            /\ heap'.last.err => heap'.ops = heap.ops
            /\ ~heap'.last.err =>
                    heap'.ops = [heap.ops EXCEPT ![heap'.last.menu] = @ + 1]
    /\ heap'.last.op = "render" =>
            /\ ~heap'.last.err
            /\ heap'.last.read = heap.ops[heap'.last.menu]
            /\ heap'.ops = heap.ops
    /\ heap'.last.op = "register" =>
            /\ heap'.last.err =>
                    ObjId[heap'.last.arg] \in DOMAIN IndexOf(heap, heap'.last.menu)
            /\ heap'.ops = heap.ops

C38_RegisterFreezes == [][C38_Step]_vars

\* a builder call threw on a menu that had received an entry before it was
\* passed to register, while another menu was never part of a register call
\* and has received an entry
C38_Witness ==
    /\ heap.last.op = "add"
    /\ heap.last.err
    /\ heap.parent[heap.last.menu].set
    /\ heap.ops[heap.last.menu] = 1
    /\ \E o \in LiveObjs : o \notin heap.part /\ heap.ops[o] = 1

\* register returned on a menu that was frozen as the argument of an earlier
\* register call
C38_WitnessRegisterAgain ==
    /\ heap.last.op = "register"
    /\ ~heap.last.err
    /\ heap.parent[heap.last.menu].set
    /\ heap.last.menu \in heap.frozen

(***************************************************************************)
(* tinyHash applied to sequences of numbers                                *)
(***************************************************************************)
\* tinyHash is applied to at most MaxNums numbers
MaxNums == 3

\* the numbers fed to tinyHash: small ones, the ends of the 16-bit half and
\* numbers that push the shifted hash into and beyond the sign bit
HashInputs == {0, 1, 98, 65535, 65536, 134217728, 2147483647}

HashInit ==
    /\ hsh = [stage |-> "input", nums |-> <<>>]
    /\ menus = <<>>
    /\ sess = 0
    /\ kbd = <<>>
    /\ sentMenu = <<>>
    /\ sentSess = 0
    /\ upd = NoUpdate
    /\ pc = "idle"
    /\ dispatched = <<>>
    /\ wire = NoWire
    /\ heap = NoHeap
    /\ inst = NoInst
    /\ lay = NoLay

\* the caller collects one more number
HashFeed ==
    \E n \in HashInputs :
        /\ hsh.stage = "input"
        /\ Len(hsh.nums) < MaxNums
        /\ hsh' = [hsh EXCEPT !.nums = Append(@, n)]
        /\ UNCHANGED <<menus, sess, kbd, sentMenu, sentSess, upd, pc, dispatched, wire, heap, inst, lay>>

\* tinyHash(nums): the hash after the loop, the bytes array and the string
\* that is returned
HashApply ==
    /\ hsh.stage = "input"
    /\ hsh' = [stage |-> "returned", nums |-> hsh.nums,
               hash |-> HashLoop(Word(0, 17), hsh.nums),
               bytes |-> HashBytes(HashLoop(Word(0, 17), hsh.nums)),
               out |-> tinyHash(hsh.nums)]
    /\ UNCHANGED <<menus, sess, kbd, sentMenu, sentSess, upd, pc, dispatched, wire, heap, inst, lay>>

HashNext == HashFeed \/ HashApply

HashSpec == HashInit /\ [][HashNext]_vars

\* h := (37 * h + n) mod 2^32 by long multiplication on the 16-bit halves
RefStep(h, n) ==
    LET lo == 37 * h[2] + (n % Half)
        hi == 37 * h[1] + (n \div Half) + (lo \div Half)
    IN <<hi % Half, lo % Half>>

RECURSIVE Reference(_, _)
Reference(h, nums) ==
    IF nums = <<>> THEN h ELSE Reference(RefStep(h, Head(nums)), Tail(nums))

\* the four bytes of a 32-bit value, most significant first
BigEndian(h) ==
    <<(h[1] \div 256) % 256, h[1] % 256, (h[2] \div 256) % 256, h[2] % 256>>

(***************************************************************************)
(* C36: for every sequence of 32-bit numbers tinyHash computes the value   *)
(* reached from h = 17 by h := (37 * h + n) mod 2^32 for each number in    *)
(* order, and outputs the four bytes of that value in big-endian order.    *)
(***************************************************************************)
C36_HashIsReferenceBytes ==
    hsh.stage = "returned" =>
        /\ hsh.hash = Reference(<<0, 17>>, hsh.nums)
        /\ hsh.out = BigEndian(Reference(<<0, 17>>, hsh.nums))

\* the value and the bytes array agree with the reference; what is returned
\* is the UTF-8 decoding of the bytes
C36_HashValueIsReference ==
    hsh.stage = "returned" =>
        /\ hsh.hash = Reference(<<0, 17>>, hsh.nums)
        /\ hsh.bytes = BigEndian(Reference(<<0, 17>>, hsh.nums))
        /\ hsh.out = decode(BigEndian(Reference(<<0, 17>>, hsh.nums)))

\* a shifted hash went beyond the sign bit on the way
C36_WitnessSignBit ==
    /\ hsh.stage = "returned"
    /\ Len(hsh.nums) = 3
    /\ hsh.nums[1] = 134217728
    /\ hsh.hash[1] >= 32768

(***************************************************************************)
(* Layouts built call by call, and their renders                           *)
(***************************************************************************)
\* a layout receives at most MaxLayout builder calls and is rendered at most
\* MaxShots times
MaxLayout == 3
MaxShots == 2

BtnA == TextButton(Static(LabelA), Undefined, <<"h1">>)
BtnB == TextButton(Static(LabelB), Static(PayloadX), <<"h2">>)
BtnDyn == TextButton(Dynamic(<<LabelA, LabelB>>), Undefined, <<"h1">>)
BtnUrl == UrlButton(Static(LabelC), Static(LabelC))

\* what a range builder does for one context: the operations it adds to the
\* range it is passed, and what it returns (Nothing for no return value)
Nothing == [kind |-> "void", rows |-> <<>>, ops |-> <<>>, fn |-> <<>>]
Builder(built, returns) == [built |-> built, returns |-> returns]

\* MenuRange.dynamic(rangeBuilder), the builder given by what it does for the
\* context data 0, 1, ... (taken cyclically): new MenuRange(), the call of the
\* builder, then "res instanceof MenuRange ? res : range"
dynamic(rangeBuilder) ==
    DynamicRange([i \in 1..Len(rangeBuilder) |->
                    IF rangeBuilder[i].returns.kind = "range"
                    THEN rangeBuilder[i].returns
                    ELSE RangeOf(rangeBuilder[i].built)])

\* a builder that fills the range it is passed and returns nothing
FillsRange ==
    <<Builder(<<Add(<<BtnA>>)>>, Nothing),
      Builder(<<RowBreak, Add(<<BtnB>>)>>, Nothing)>>
\* a builder that returns a range of its own, with a dynamic range inside
ReturnsRange ==
    <<Builder(<<Add(<<BtnA>>)>>,
              RangeOf(<<dynamic(<<Builder(<<Add(<<BtnB>>), RowBreak>>, Nothing)>>),
                        Add(<<BtnUrl>>)>>))>>
\* a builder that returns a two-dimensional array of buttons
ReturnsRaw ==
    <<Builder(<<>>, RawRange(<< <<BtnUrl>> >>))>>

\* the calls made on the layout: text, row, url, addRange of a block with two
\* rows, dynamic
BuilderCalls ==
    {[call |-> "text", op |-> Add(<<BtnA>>), fn |-> <<>>],
     [call |-> "text", op |-> Add(<<BtnDyn>>), fn |-> <<>>],
     [call |-> "row", op |-> RowBreak, fn |-> <<>>],
     [call |-> "url", op |-> Add(<<BtnUrl>>), fn |-> <<>>],
     [call |-> "addRange", op |-> RawRange(<< <<BtnUrl>>, <<BtnB>> >>), fn |-> <<>>],
     [call |-> "dynamic", op |-> dynamic(FillsRange), fn |-> FillsRange],
     [call |-> "dynamic", op |-> dynamic(ReturnsRange), fn |-> ReturnsRange],
     [call |-> "dynamic", op |-> dynamic(ReturnsRaw), fn |-> ReturnsRaw]}

\* new Menu("root")
RenderInit ==
    /\ lay = [menu |-> MenuCtor(RootId, RawOptions("undef", OutdatedUnset, Undefined)).menu,
              calls |-> <<>>, shots |-> <<>>]
    /\ menus = <<>>
    /\ sess = 0
    /\ kbd = <<>>
    /\ sentMenu = <<>>
    /\ sentSess = 0
    /\ upd = NoUpdate
    /\ pc = "idle"
    /\ dispatched = <<>>
    /\ wire = NoWire
    /\ heap = NoHeap
    /\ inst = NoInst
    /\ hsh = NoHsh

\* one builder call: this[ops].push(...range)
RenderBuild ==
    \E c \in BuilderCalls :
        /\ lay.shots = <<>>
        /\ Len(lay.calls) < MaxLayout
        /\ lay' = [lay EXCEPT !.menu.ops = Append(@, c.op),
                              !.calls = Append(@, c)]
        /\ UNCHANGED <<menus, sess, kbd, sentMenu, sentSess, upd, pc, dispatched, wire, heap, inst, hsh>>

\* the menu is rendered for a context (two contexts tell a label function
\* from a constant): by the middleware with the transformer (btn) => btn, and
\* by Menu.render
RenderShot ==
    \E ctx \in {0, 1} :
        /\ Len(lay.shots) < MaxShots
        /\ lay' = [lay EXCEPT !.shots =
                      Append(@, [ctx |-> ctx,
                                 dry |-> createRenderer(ctx, DryTransformer, lay.menu.ops).k,
                                 res |-> render(lay.menu, ctx)])]
        /\ UNCHANGED <<menus, sess, kbd, sentMenu, sentSess, upd, pc, dispatched, wire, heap, inst, hsh>>

RenderNext == RenderBuild \/ RenderShot

RenderSpec == RenderInit /\ [][RenderNext]_vars

(***************************************************************************)
(* Vocabulary of the properties of rendering                               *)
(***************************************************************************)
Shots == DOMAIN lay.shots
StaticOnly(ops) == \A i \in DOMAIN ops : ops[i].kind = "raw"
CallOps == [i \in DOMAIN lay.calls |-> lay.calls[i].op]

\* what an operation stands for in a context: itself, or what the function
\* returned
Returned(ctx, op) == IF op.kind = "fn" THEN op.fn[(ctx % Len(op.fn)) + 1] ELSE op

RECURSIVE Blocks(_, _)
\* the blocks of buttons of a layout in insertion order, the operations of a
\* returned range taking the place of the dynamic operation
Blocks(ctx, ops) ==
    IF ops = <<>> THEN <<>>
    ELSE (IF Returned(ctx, Head(ops)).kind = "range"
          THEN Blocks(ctx, Returned(ctx, Head(ops)).ops)
          ELSE <<Returned(ctx, Head(ops)).rows>>)
         \o Blocks(ctx, Tail(ops))

\* a mark between two rows of one block
Sep == [type |-> "sep", text |-> Undefined, payload |-> Undefined,
        middleware |-> <<>>, url |-> Undefined]

RECURSIVE RowsWithSeps(_)
RowsWithSeps(rows) ==
    IF rows = <<>> THEN <<>>
    ELSE IF Len(rows) = 1 THEN rows[1]
    ELSE rows[1] \o <<Sep>> \o RowsWithSeps(Tail(rows))

RECURSIVE Items(_)
\* all buttons in order, with a mark wherever a block goes from one of its
\* rows to the next
Items(blocks) ==
    IF blocks = <<>> THEN <<>>
    ELSE RowsWithSeps(Head(blocks)) \o Items(Tail(blocks))

\* the reference flattening: the rows are what lies between the marks
Flattening(ctx, ops) == split(Items(Blocks(ctx, ops)), Sep)

RECURSIVE Inline(_, _)
\* the layout with every dynamic operation replaced, in place, by the
\* operations it returned
Inline(ctx, ops) ==
    IF ops = <<>> THEN <<>>
    ELSE (IF Head(ops).kind # "fn" THEN <<Head(ops)>>
          ELSE IF Returned(ctx, Head(ops)).kind = "range"
               THEN Returned(ctx, Head(ops)).ops
               ELSE <<Returned(ctx, Head(ops))>>)
         \o Inline(ctx, Tail(ops))

\* the layout a caller of dynamic expects: the value the builder returned if
\* it returned one, the range it was passed otherwise
Expected(ctx, calls) ==
    [i \in DOMAIN calls |->
        IF calls[i].call # "dynamic" THEN calls[i].op
        ELSE LET b == calls[i].fn[(ctx % Len(calls[i].fn)) + 1]
             IN IF b.returns.kind = "void" THEN RangeOf(b.built) ELSE b.returns]

C32_RenderIsReferenceFlattening ==
    \A s \in Shots :
        /\ lay.shots[s].dry = Flattening(lay.shots[s].ctx, lay.menu.ops)
        /\ Len(lay.shots[s].dry) >= 1
        /\ lay.menu.ops = <<>> => lay.shots[s].dry = << <<>> >>
        /\ \A i \in 2..Len(lay.calls) :
                (/\ i = Len(lay.calls)
                 /\ lay.calls[i - 1].call = "row"
                 /\ lay.calls[i].call \in {"text", "url"}) =>
                    /\ Len(lay.shots[s].dry) >= 2
                    /\ lay.shots[s].dry[Len(lay.shots[s].dry)] = lay.calls[i].op.rows[1]

\* a block of two rows, row(), then a button
C32_Witness ==
    /\ Len(lay.calls) = 3
    /\ lay.calls[1].call = "addRange"
    /\ lay.calls[2].call = "row"
    /\ lay.calls[3].call = "text"
    /\ \E s \in Shots : lay.shots[s].dry = << <<BtnUrl>>, <<BtnB>>, <<BtnA>> >>

\* the empty layout was rendered
C32_WitnessEmpty ==
    /\ lay.calls = <<>>
    /\ \E s \in Shots : lay.shots[s].dry = << <<>> >>

(***************************************************************************)
(* C33: the row and column in the token of every rendered button are the   *)
(* indices of that button in the final grid, also for buttons of nested    *)
(* dynamic ranges and for buttons after row breaks.                        *)
(***************************************************************************)
C33_TokenCoordinatesAreIndices ==
    \A s \in Shots :
        ~lay.shots[s].res.err =>
            \A r \in DOMAIN lay.shots[s].res.k :
                \A c \in DOMAIN lay.shots[s].res.k[r] :
                    LET btn == lay.shots[s].res.k[r][c]
                        tok == split(btn.callback_data, Slash)
                    IN btn.type = "cb" =>
                        /\ Len(tok) >= 5
                        /\ tok[1] = lay.menu.id
                        /\ parseInt16(tok[2]) = [nan |-> FALSE, val |-> r - 1]
                        /\ parseInt16(tok[3]) = [nan |-> FALSE, val |-> c - 1]
                        /\ btn.text = uniform(lay.shots[s].ctx,
                                              lay.shots[s].dry[r][c].text, <<>>)

\* a button of a dynamic range inside a returned range, behind a row break
\* and behind another button of its row
C33_Witness ==
    /\ Len(lay.calls) = 3
    /\ lay.calls[1].call = "row"
    /\ lay.calls[2].call = "url"
    /\ lay.calls[3].fn = ReturnsRange
    /\ \E s \in Shots :
            /\ ~lay.shots[s].res.err
            /\ Len(lay.shots[s].res.k) = 3
            /\ lay.shots[s].res.k[2][2].type = "cb"
            /\ split(lay.shots[s].res.k[2][2].callback_data, Slash)[2] = <<49>>
            /\ split(lay.shots[s].res.k[2][2].callback_data, Slash)[3] = <<49>>

(***************************************************************************)
(* C34: a dynamic operation is replayed onto the same accumulator: the     *)
(* render equals the render of the layout in which the dynamic operation   *)
(* is replaced in place by the operations it returned, so its first        *)
(* buttons continue the current row, committed rows stay as they are and   *)
(* later operations continue from the last row it produced.                *)
(***************************************************************************)
C34_DynamicIsReplayedInPlace ==
    \A s \in Shots :
        LET ctx == lay.shots[s].ctx
            inlined == [lay.menu EXCEPT !.ops = Inline(ctx, lay.menu.ops)]
        IN /\ lay.shots[s].dry =
                  createRenderer(ctx, DryTransformer, inlined.ops).k
           /\ lay.shots[s].res = render(inlined, ctx)

\* a button, then a dynamic range with a row break of its own, then a button
C34_Witness ==
    /\ Len(lay.calls) = 3
    /\ lay.calls[1].op = Add(<<BtnA>>)
    /\ lay.calls[2].fn = FillsRange
    /\ lay.calls[3].op = Add(<<BtnUrl>>)
    /\ \E s \in Shots :
            /\ lay.shots[s].ctx = 1
            /\ lay.shots[s].dry = << <<BtnA>>, <<BtnB, BtnUrl>> >>
    /\ \E s \in Shots :
            /\ lay.shots[s].ctx = 0
            /\ lay.shots[s].dry = << <<BtnA, BtnA, BtnUrl>> >>

(***************************************************************************)
(* C35: dynamic(fn) makes a fresh nested layout on every render, calls fn  *)
(* with it and renders the value fn returns whenever it returns one, a     *)
(* layout or a raw block of buttons; the nested layout is rendered only if *)
(* fn returns nothing.                                                     *)
(***************************************************************************)
C35_DynamicRendersReturnedValue ==
    \A s \in Shots :
        lay.shots[s].dry =
            createRenderer(lay.shots[s].ctx, DryTransformer,
                           Expected(lay.shots[s].ctx, lay.calls)).k

(***************************************************************************)
(* One render, await by await: the promises of ops.reduce(layout, ...)     *)
(***************************************************************************)
\* one call of layout(keyboard, range): the promise it awaits first (the
\* number of the call that returned it, 0 for a resolved promise), where it
\* stands, and its local variables btns (rows still to come, rest of the
\* current row), first, i and j; follows is the promise a returned reduce
\* handed back
NewCall(path, op, waits) ==
    [path |-> path, op |-> op, waits |-> waits, pc |-> "awaitKeyboard",
     rows |-> <<>>, row |-> <<>>, first |-> TRUE, i |-> 0, j |-> 0, follows |-> 0]

RECURSIVE Spawn(_, _, _, _, _)
\* ops.reduce(layout, keyboard): reduce calls layout for every operation at
\* once, each call with the promise of the call before it, and each call
\* stops at its first await
Spawn(procs, path, ops, waits, n) ==
    IF ops = <<>> THEN procs
    ELSE Spawn(Append(procs, NewCall(path \o <<n>>, Head(ops), waits)),
               path, Tail(ops), Len(procs) + 1, n + 1)

RECURSIVE Fulfilled(_, _)
\* the promise of call p is fulfilled
Fulfilled(procs, p) ==
    IF p = 0 THEN TRUE
    ELSE IF procs[p].pc = "done" THEN TRUE
    ELSE IF procs[p].pc = "adopted" THEN Fulfilled(procs, procs[p].follows)
    ELSE FALSE

\* a variant of CanStart for a layout that does not await the keyboard
\* before it goes on
CanStartEager(procs, p) == procs[p].pc = "awaitKeyboard"

\* const k = await keyboard
CanStart(procs, p) ==
    procs[p].pc = "awaitKeyboard" /\ Fulfilled(procs, procs[p].waits)

RECURSIVE RunToAwait(_, _)
\* the loops over btns from where the call stands to its next await, or to
\* its return
RunToAwait(k, pr) ==
    IF pr.row # <<>>
    THEN [k |-> k, pr |-> [pr EXCEPT !.pc = "awaitButton", !.j = Len(k[pr.i + 1])]]
    ELSE IF pr.rows = <<>>
    THEN [k |-> k, pr |-> [pr EXCEPT !.pc = "done"]]
    ELSE LET opened == IF pr.first THEN k ELSE Append(k, <<>>)
         IN RunToAwait(opened,
                       [pr EXCEPT !.row = Head(pr.rows), !.rows = Tail(pr.rows),
                                  !.first = FALSE, !.i = Len(opened) - 1])

\* the operations a layout is made of
ChainOps == {c.op : c \in BuilderCalls}

ChainInit ==
    /\ lay = [stage |-> "building", ops |-> <<>>]
    /\ menus = <<>>
    /\ sess = 0
    /\ kbd = <<>>
    /\ sentMenu = <<>>
    /\ sentSess = 0
    /\ upd = NoUpdate
    /\ pc = "idle"
    /\ dispatched = <<>>
    /\ wire = NoWire
    /\ heap = NoHeap
    /\ inst = NoInst
    /\ hsh = NoHsh

\* this[ops].push(...range)
ChainBuild ==
    \E op \in ChainOps :
        /\ lay.stage = "building"
        /\ Len(lay.ops) < MaxLayout
        /\ lay' = [lay EXCEPT !.ops = Append(@, op)]
        /\ UNCHANGED <<menus, sess, kbd, sentMenu, sentSess, upd, pc, dispatched, wire, heap, inst, hsh>>

\* renderer(menu[ops]) is called for a context
ChainStart ==
    \E ctx \in {0, 1} :
        /\ lay.stage = "building"
        /\ lay' = [stage |-> "rendering", ops |-> lay.ops, ctx |-> ctx,
                   k |-> << <<>> >>,
                   procs |-> Spawn(<<>>, <<>>, lay.ops, 0, 1)]
        /\ UNCHANGED <<menus, sess, kbd, sentMenu, sentSess, upd, pc, dispatched, wire, heap, inst, hsh>>

\* the keyboard a call awaits is there: the call goes on to range(ctx) when
\* the range is a function, to the loops otherwise
ChainResume ==
    \E p \in IF lay.stage = "rendering" THEN DOMAIN lay.procs ELSE {} :
        /\ CanStart(lay.procs, p)
        /\ LET pr == lay.procs[p]
               run == RunToAwait(lay.k, [pr EXCEPT !.rows = pr.op.rows])
           IN lay' = IF pr.op.kind = "fn"
                     THEN [lay EXCEPT !.procs[p].pc = "awaitRange"]
                     ELSE [lay EXCEPT !.procs[p] = run.pr, !.k = run.k]
        /\ UNCHANGED <<menus, sess, kbd, sentMenu, sentSess, upd, pc, dispatched, wire, heap, inst, hsh>>

\* range(ctx) settles: a MenuRange is reduced onto the keyboard promise, a
\* raw range goes to the loops
ChainRangeSettles ==
    \E p \in IF lay.stage = "rendering" THEN DOMAIN lay.procs ELSE {} :
        /\ lay.procs[p].pc = "awaitRange"
        /\ LET pr == lay.procs[p]
               btns == Returned(lay.ctx, pr.op)
               spawned == Spawn(lay.procs, pr.path, btns.ops, pr.waits, 1)
               run == RunToAwait(lay.k, [pr EXCEPT !.rows = btns.rows])
           IN lay' = IF btns.kind = "range"
                     THEN [lay EXCEPT
                             !.procs = [spawned EXCEPT
                                          ![p].pc = "adopted",
                                          ![p].follows = IF btns.ops = <<>> THEN pr.waits
                                                         ELSE Len(spawned)]]
                     ELSE [lay EXCEPT !.procs[p] = run.pr, !.k = run.k]
        /\ UNCHANGED <<menus, sess, kbd, sentMenu, sentSess, upd, pc, dispatched, wire, heap, inst, hsh>>

\* buttonTransformer(button, i, j) settles: k[i].push(btn), and on
ChainPush ==
    \E p \in IF lay.stage = "rendering" THEN DOMAIN lay.procs ELSE {} :
        /\ lay.procs[p].pc = "awaitButton"
        /\ LET pr == lay.procs[p]
               btn == buttonTransformer(RenderTransformer(RootId), lay.ctx,
                                        Head(pr.row), pr.i, pr.j).btn
               pushed == [lay.k EXCEPT ![pr.i + 1] = Append(@, btn)]
               run == RunToAwait(pushed, [pr EXCEPT !.row = Tail(pr.row)])
           IN lay' = [lay EXCEPT !.procs[p] = run.pr, !.k = run.k]
        /\ UNCHANGED <<menus, sess, kbd, sentMenu, sentSess, upd, pc, dispatched, wire, heap, inst, hsh>>

ChainNext == ChainBuild \/ ChainStart \/ ChainResume \/ ChainRangeSettles \/ ChainPush

ChainSpec == ChainInit /\ [][ChainNext]_vars

(***************************************************************************)
(* Vocabulary of the properties of one render                              *)
(***************************************************************************)
Rendering == lay.stage = "rendering"
Calls == IF Rendering THEN DOMAIN lay.procs ELSE {}
\* the call evaluates its range or lays it out
Busy(p) == lay.procs[p].pc \in {"awaitRange", "awaitButton"}
\* the call is past its first await
Started(p) == lay.procs[p].pc # "awaitKeyboard"
\* call q is for an operation that precedes that of call p in insertion
\* order, and that call p is not part of
Precedes(q, p) ==
    LET a == lay.procs[q].path
        b == lay.procs[p].path
    IN \E n \in 1..Len(a) :
            /\ n <= Len(b)
            /\ a[n] < b[n]
            /\ \A m \in 1..(n - 1) : a[m] = b[m]
RenderDone == Rendering /\ \A p \in Calls : Fulfilled(lay.procs, p)

(***************************************************************************)
(* C37: within one render an operation is not evaluated before every       *)
(* operation that precedes it in insertion order is laid out completely;   *)
(* no two operations are evaluated or laid out at the same time, and the   *)
(* grid with its row and column indices is the same whenever the           *)
(* asynchronous steps complete.                                            *)
(***************************************************************************)
C37_RenderIsSequential ==
    /\ \A p \in Calls : \A q \in Calls :
            (Started(p) /\ Precedes(q, p)) => Fulfilled(lay.procs, q)
    /\ Cardinality({p \in Calls : Busy(p)}) <= 1
    /\ RenderDone =>
            lay.k = createRenderer(lay.ctx, RenderTransformer(RootId), lay.ops).k

\* a dynamic range that returned a range with a dynamic range inside is
\* awaited while the button after it waits for the keyboard
C37_Witness ==
    /\ Rendering
    /\ Len(lay.ops) = 3
    /\ lay.ops[2] = dynamic(ReturnsRange)
    /\ lay.ops[3] = Add(<<BtnDyn>>)
    /\ \E p \in Calls :
            /\ Len(lay.procs[p].path) = 2
            /\ lay.procs[p].pc = "awaitRange"
    /\ lay.procs[2].pc = "adopted"
    /\ lay.procs[3].pc = "awaitKeyboard"
    /\ Fulfilled(lay.procs, 1)

\* the render of such a layout is done
C37_WitnessDone ==
    /\ RenderDone
    /\ Len(lay.ops) = 3
    /\ lay.ops[2] = dynamic(ReturnsRange)
    /\ lay.ops[3] = Add(<<BtnDyn>>)
    /\ Len(lay.k) = 2

====
